---- MODULE Spec2Model ----
(***************************************************************************)
(* Model of the image / filesystem access layer of the forensic toolkit:   *)
(* managers/evidence_utils.py (EWFImgInfo, ImageHandler) and the callers   *)
(* in modules/mainwindow.py that drive it.                                 *)
(*                                                                         *)
(* The operations of ImageHandler are modelled on one handler; the main    *)
(* window's image sessions, the chunked read loops and the acquisition     *)
(* threads of modules/file_acquisition.py have state of their own.  The    *)
(* libraries (pytsk3, pyewf) are the environment: the container that was   *)
(* opened is chosen in Init and never changes; what a library call does    *)
(* on it (succeed, raise, return short) is read from that container or     *)
(* drawn as an input of the action that makes the call.                    *)
(*                                                                         *)
(* Python's None is the string "None" for values and 0 for handles.        *)
(***************************************************************************)
EXTENDS Integers, Sequences, FiniteSets, TLC

(***************************************************************************)
(* Program constants (evidence_utils.py:11-15), in bytes.                  *)
(***************************************************************************)
SECTOR_SIZE == 512
READ_BUFFER_SIZE == 1048576
LARGE_FILE_THRESHOLD == 10485760
CHUNK_SIZE == 8388608

(***************************************************************************)
(* Bounds of the model.                                                    *)
(***************************************************************************)
\* calls made on one ImageHandler in one behaviour
MaxCalls == 4
\* largest start sector at which a filesystem mount is tried
MaxOffset == 2

\* entries of the directory that is listed
MaxEntries == 3
\* content extractions in one behaviour
MaxContentCalls == 2

\* entries of the root directory a walk starts in
MaxWalkEntries == 2

\* the image spans up to MaxBuffers read buffers, a read one more
MaxBuffers == 2

\* a file spans up to MaxChunks chunks of CHUNK_SIZE bytes, plus one byte
MaxChunks == 2

NoHandle == 0
\* inode_number=None of get_directory_contents (the root, opened by path)
NoInode == 0
Offsets == 0..MaxOffset

VARIABLES
    \* ---- environment: the container behind img_info ----
    container,          \* volume table and mountable offsets of the image
    directory,          \* the root directory of the filesystem in the image
    subdirectory,       \* the directory behind SubdirInode, as a walk opens it
    file,               \* the file behind FileInode / the hive path
    archive,            \* what the bytes of that file are to zipfile
    media_size,         \* size of the image in bytes (get_media_size)
    image_type,         \* get_image_type(): "ewf" or "raw"
    stored_hashes,      \* what get_hash_value gives for MD5 and SHA1
    fs_type,            \* fs_info.info.ftype of the filesystems in the image
    temp_files,         \* the files in the temporary directory of the host
    ewf_cursor,         \* read position of the pyewf handle
    \* ---- the threads of the application (mainwindow.py, mind_map.py) ----
    threads,            \* thread -> what it runs and the read it is inside
    future,             \* the future of _load_partitions_worker
    callback,           \* the done-callback of that future
    \* ---- MainWindow (mainwindow.py:45, 442-451, 505-564) ----
    selectable,         \* the files the user can pick in the file dialog
    image_handler,      \* MainWindow.image_handler: a session, 0 for None
    sessions,           \* the ImageHandler objects constructed so far
    evidence_files,     \* MainWindow.evidence_files
    tree_viewer,        \* the top-level items of the tree, by session
    current_image_path, \* MainWindow.current_image_path, <<>> for None
    \* ---- FileAcquisitionDialog / ImageToE01ConversionDialog ----
    \* ---- (file_acquisition.py:663-966, 1184-1431) ----
    acquisition_thread, \* the thread of the dialog and where its run() stands
    start_btn,          \* start_btn.isEnabled()
    cancel_btn,         \* cancel_btn.isEnabled()
    signals,            \* finished emissions queued for the GUI thread
    starts,             \* threads started so far
    \* ---- a chunked read loop in progress (evidence_utils.py:40-50, ----
    \* ---- 351-358, 579-586) ----
    loop,               \* its local variables and where it stands
    \* ---- EWFImgInfo field (evidence_utils.py:22) ----
    last_offset,        \* _last_offset
    \* ---- ImageHandler fields (evidence_utils.py:61-71) ----
    volume_info,        \* "None" or "VS" (a parsed pytsk3.Volume_Info)
    volume_info_loaded, \* _volume_info_loaded
    fs_info,            \* handle of the offset-0 probe, NoHandle for None
    is_wiped_image,
    fs_info_cache,      \* start offset -> handle
    directory_cache,    \* <<start offset, inode>> -> entries
    file_metadata_cache,
    \* ---- bookkeeping of the library calls and of the API calls ----
    handles,            \* handles[i]: byte offset FS_Info number i was built at
    parseCount,         \* Volume_Info(...) attempts by volume discovery
    probeCount,         \* FS_Info(img_info) attempts by volume discovery
    mountCount,         \* start offset -> FS_Info attempts by get_fs_info
    fsCalls,            \* start offset -> get_fs_info calls
    firstFs,            \* start offset -> result of the first get_fs_info
    firstDiscovery,     \* outcome of the first get_partitions call
    calls,              \* API calls made so far
    ret                 \* the last API call: operation, arguments, outcome

vars == <<container, directory, subdirectory, file, archive, media_size,
          image_type, stored_hashes, fs_type,
          temp_files, threads, future, callback,
          selectable, image_handler, sessions, evidence_files, tree_viewer,
          current_image_path, loop,
          acquisition_thread, start_btn, cancel_btn, signals, starts,
          ewf_cursor, last_offset,
          volume_info, volume_info_loaded, fs_info, is_wiped_image,
          fs_info_cache, directory_cache, file_metadata_cache, handles,
          parseCount, probeCount, mountCount, fsCalls, firstFs,
          firstDiscovery, calls, ret>>

(***************************************************************************)
(* The containers.  A volume-table entry is (addr, desc, start, len) as    *)
(* read by get_partitions; desc "" is an entry without description.        *)
(***************************************************************************)
Part(a, d, s, l) == [addr |-> a, desc |-> d, start |-> s, len |-> l]

Tables ==
    { <<>>,
      << Part(0, "", 0, 2) >>,
      << Part(0, "Primary Table", 0, 1), Part(1, "NTFS", 2, 4) >>,
      << Part(0, "Primary Table", 0, 1), Part(1, "", 1, 1),
         Part(2, "NTFS", 2, 4), Part(3, "Basic data", 2, 4) >> }

\* vsOK: pytsk3.Volume_Info(img_info) succeeds; table: what iterating it
\* yields; iterFailAt: the position at which iterating raises (0: nowhere);
\* fsAt: the start sectors at which pytsk3.FS_Info succeeds.
Containers ==
    { [vsOK |-> v, table |-> t, iterFailAt |-> k, fsAt |-> f] :
        v \in BOOLEAN, t \in Tables, k \in 0..2, f \in SUBSET Offsets }

ContainerOK(c) ==
    /\ c.iterFailAt <= Len(c.table) + 1
    /\ (~c.vsOK) => (c.table = <<>> /\ c.iterFailAt = 0)

(***************************************************************************)
(* The handler's fields as one record, so that the methods are operators   *)
(* from a handler state to a handler state and a result.                   *)
(***************************************************************************)
Self ==
    [volume_info |-> volume_info, loaded |-> volume_info_loaded,
     fs_info |-> fs_info, wiped |-> is_wiped_image,
     fs_info_cache |-> fs_info_cache, directory_cache |-> directory_cache,
     file_metadata_cache |-> file_metadata_cache,
     handles |-> handles, parseCount |-> parseCount,
     probeCount |-> probeCount, mountCount |-> mountCount]

Store(h) ==
    /\ volume_info' = h.volume_info
    /\ volume_info_loaded' = h.loaded
    /\ fs_info' = h.fs_info
    /\ is_wiped_image' = h.wiped
    /\ fs_info_cache' = h.fs_info_cache
    /\ directory_cache' = h.directory_cache
    /\ file_metadata_cache' = h.file_metadata_cache
    /\ handles' = h.handles
    /\ parseCount' = h.parseCount
    /\ probeCount' = h.probeCount
    /\ mountCount' = h.mountCount

\* ImageHandler.__init__ after _load_basic_image_info.
NewHandler ==
    [volume_info |-> "None", loaded |-> FALSE, fs_info |-> NoHandle,
     wiped |-> FALSE, fs_info_cache |-> << >>, directory_cache |-> << >>,
     file_metadata_cache |-> << >>, handles |-> << >>, parseCount |-> 0,
     probeCount |-> 0, mountCount |-> [o \in Offsets |-> 0]]

(***************************************************************************)
(* _ensure_volume_info_loaded                                              *)
(***************************************************************************)
\* the offset-0 probe of volume discovery: FS_Info(img_info)
ProbeBareFilesystem(h, c) ==
    IF 0 \in c.fsAt
    THEN [h EXCEPT !.handles = Append(h.handles, 0),
                   !.fs_info = Len(h.handles) + 1,
                   !.probeCount = h.probeCount + 1]
    ELSE [h EXCEPT !.fs_info = NoHandle,
                   !.wiped = TRUE,
                   !.probeCount = h.probeCount + 1]

\* a plausible slip: the loaded flag is set only when the table parsed
EnsureVolumeInfoLoaded_NoMemoOnFailure(h, c) ==
    IF h.loaded THEN h
    ELSE IF c.vsOK
         THEN [h EXCEPT !.volume_info = "VS", !.loaded = TRUE,
                        !.parseCount = h.parseCount + 1]
         ELSE ProbeBareFilesystem(
                  [h EXCEPT !.volume_info = "None",
                            !.parseCount = h.parseCount + 1], c)

EnsureVolumeInfoLoaded(h, c) ==
    IF h.loaded THEN h
    ELSE IF c.vsOK
         THEN [h EXCEPT !.volume_info = "VS", !.loaded = TRUE,
                        !.parseCount = h.parseCount + 1]
         ELSE [ProbeBareFilesystem(
                  [h EXCEPT !.volume_info = "None",
                            !.parseCount = h.parseCount + 1], c)
               EXCEPT !.loaded = TRUE]

(***************************************************************************)
(* get_partitions: the loop over volume_info.  Iterating may raise; the    *)
(* loop is not inside a try.                                               *)
(***************************************************************************)
RECURSIVE IterPartitions(_, _, _, _)
IterPartitions(table, i, failAt, acc) ==
    IF i = failAt THEN [raised |-> TRUE, value |-> <<>>]
    ELSE IF i > Len(table) THEN [raised |-> FALSE, value |-> acc]
    ELSE IF table[i].desc = ""
         THEN IterPartitions(table, i + 1, failAt, acc)
         ELSE IterPartitions(table, i + 1, failAt, Append(acc, table[i]))

GetPartitions(h, c) ==
    LET h1 == EnsureVolumeInfoLoaded(h, c) IN
    IF h1.volume_info # "None"
    THEN LET r == IterPartitions(c.table, 1, c.iterFailAt, <<>>) IN
         [h |-> h1, raised |-> r.raised, value |-> r.value]
    ELSE [h |-> h1, raised |-> FALSE, value |-> <<>>]

\* load_image: img_info is set by the constructor, so only the lazy load runs
LoadImage(h, c) ==
    [h |-> EnsureVolumeInfoLoaded(h, c), raised |-> FALSE, value |-> "None"]

(***************************************************************************)
(* get_fs_info / has_filesystem                                            *)
(***************************************************************************)
\* a plausible slip: the cache is not consulted before mounting
GetFsInfo_NoCacheCheck(h, c, off) ==
    IF off \in c.fsAt
    THEN LET id == Len(h.handles) + 1 IN
         [h |-> [h EXCEPT !.handles = Append(h.handles, off * 512),
                          !.fs_info_cache =
                              [o \in DOMAIN h.fs_info_cache \cup {off} |->
                                  IF o = off THEN id ELSE h.fs_info_cache[o]],
                          !.mountCount[off] = h.mountCount[off] + 1],
          raised |-> FALSE, value |-> id]
    ELSE [h |-> [h EXCEPT !.mountCount[off] = h.mountCount[off] + 1],
          raised |-> FALSE, value |-> NoHandle]

GetFsInfo(h, c, off) ==
    IF off \notin DOMAIN h.fs_info_cache
    THEN IF off \in c.fsAt
         THEN LET id == Len(h.handles) + 1 IN
              [h |-> [h EXCEPT !.handles = Append(h.handles, off * 512),
                               !.fs_info_cache =
                                   [o \in DOMAIN h.fs_info_cache \cup {off} |->
                                       IF o = off THEN id
                                       ELSE h.fs_info_cache[o]],
                               !.mountCount[off] = h.mountCount[off] + 1],
               raised |-> FALSE, value |-> id]
         ELSE [h |-> [h EXCEPT !.mountCount[off] = h.mountCount[off] + 1],
               raised |-> FALSE, value |-> NoHandle]
    ELSE [h |-> h, raised |-> FALSE, value |-> h.fs_info_cache[off]]

HasFilesystem(h, c, off) ==
    LET r == GetFsInfo(h, c, off) IN
    [h |-> r.h, raised |-> r.raised, value |-> (r.value # NoHandle)]

(***************************************************************************)
(* MainWindow._load_partitions_worker: get_partitions, then                *)
(* has_filesystem(0) when the list is empty; any exception is caught and   *)
(* reported in the result.                                                 *)
(***************************************************************************)
LoadPartitionsWorker(h, c) ==
    LET p == GetPartitions(h, c) IN
    IF p.raised
    THEN [h |-> p.h, raised |-> FALSE,
          value |-> [error |-> TRUE, has_partitions |-> FALSE,
                     has_filesystem |-> FALSE, partitions |-> <<>>]]
    ELSE IF p.value = <<>>
    THEN LET f == HasFilesystem(p.h, c, 0) IN
         [h |-> f.h, raised |-> FALSE,
          value |-> [error |-> FALSE, has_partitions |-> FALSE,
                     has_filesystem |-> f.value, partitions |-> <<>>]]
    ELSE [h |-> p.h, raised |-> FALSE,
          value |-> [error |-> FALSE, has_partitions |-> TRUE,
                     has_filesystem |-> FALSE, partitions |-> p.value]]

(***************************************************************************)
(* Directories.  A raw directory entry as pytsk3 yields it: name is the    *)
(* byte string entry.info.name.name (a sequence of bytes, "FF" a byte that *)
(* is not valid UTF-8); kind is the type of entry.info.meta, "NOMETA" when *)
(* meta is None and "BAD" when reading the entry's metadata raises.        *)
(***************************************************************************)
RawEntry(n, k, a, sz, t) ==
    [name |-> n, kind |-> k, addr |-> a, size |-> sz, times |-> t]

\* Python's None for a timestamp (0 is a timestamp)
NoTime == -1
\* two timestamps: 1970-01-02 01:01:01 and 2023-11-14 22:13:20
SomeTime == 90061
OtherTime == 1700000000

\* entry.info.meta.atime / mtime / crtime / ctime; has_crtime: the meta
\* block has the attribute crtime
Times(a, m, cr, c, has) ==
    [atime |-> a, mtime |-> m, crtime |-> cr, ctime |-> c, has_crtime |-> has]

EntryPool ==
    { RawEntry(<<".">>, "DIR", 5, 0,
               Times(SomeTime, SomeTime, SomeTime, SomeTime, TRUE)),
      RawEntry(<<"a">>, "REG", 10, 1,
               Times(0, SomeTime, NoTime, OtherTime, TRUE)),
      RawEntry(<<"d">>, "DIR", 11, 0, Times(0, 0, 0, 0, TRUE)),
      RawEntry(<<"m">>, "NOMETA", 0, 0,
               Times(NoTime, NoTime, NoTime, NoTime, FALSE)),
      RawEntry(<<"e">>, "BAD", 12, 7,
               Times(SomeTime, SomeTime, SomeTime, SomeTime, TRUE)),
      RawEntry(<<"x", "FF">>, "REG", 13, 2,
               Times(OtherTime, OtherTime, OtherTime, SomeTime, FALSE)) }

RECURSIVE SeqsUpTo(_, _)
SeqsUpTo(S, n) ==
    IF n = 0 THEN { <<>> }
    ELSE LET shorter == SeqsUpTo(S, n - 1) IN
         shorter \cup { Append(q, x) : q \in shorter, x \in S }

\* opens: open_dir succeeds; iterFailAt: the position at which iterating
\* the directory raises (0: nowhere)
Directories ==
    { [opens |-> TRUE, iterFailAt |-> k, entries |-> es] :
        k \in {0, 2}, es \in SeqsUpTo(EntryPool, MaxEntries) }
    \cup { [opens |-> FALSE, iterFailAt |-> 0, entries |-> <<>>] }

NoDirectory == [opens |-> FALSE, iterFailAt |-> 0, entries |-> <<>>]
EmptyDirectory == [opens |-> TRUE, iterFailAt |-> 0, entries |-> <<>>]

\* the directories of at most one entry
CacheDirectories == {d \in Directories : Len(d.entries) <= 1}

RootInode == 5
SubdirInode == 11
FileInode == 10
\* the inode arguments the UI passes: none (root by path), a directory's
\* inode, a regular file's inode
DirInodes == {NoInode, SubdirInode, FileInode}

\* bytes.decode('utf-8', errors='ignore'): invalid bytes are dropped
RECURSIVE DecodeIgnore(_)
DecodeIgnore(bytes) ==
    IF bytes = <<>> THEN <<>>
    ELSE IF Head(bytes) = "FF" THEN DecodeIgnore(Tail(bytes))
    ELSE <<Head(bytes)>> \o DecodeIgnore(Tail(bytes))

Pad2(n) == IF n < 10 THEN "0" \o ToString(n) ELSE ToString(n)

\* datetime.datetime.utcfromtimestamp(t).strftime('%Y-%m-%d %H:%M:%S') for
\* a timestamp t >= 0 (the proleptic Gregorian calendar, by days since
\* 0000-03-01)
Strftime(t) ==
    LET secs == t % 86400
        z    == (t \div 86400) + 719468
        era  == z \div 146097
        doe  == z - era * 146097
        yoe  == (doe - doe \div 1460 + doe \div 36524 - doe \div 146096)
                    \div 365
        doy  == doe - (365 * yoe + yoe \div 4 - yoe \div 100)
        mp   == (5 * doy + 2) \div 153
        d    == doy - (153 * mp + 2) \div 5 + 1
        m    == IF mp < 10 THEN mp + 3 ELSE mp - 9
        y    == yoe + era * 400 + (IF m <= 2 THEN 1 ELSE 0)
    IN  ToString(y) \o "-" \o Pad2(m) \o "-" \o Pad2(d) \o " "
            \o Pad2(secs \div 3600) \o ":" \o Pad2((secs % 3600) \div 60)
            \o ":" \o Pad2(secs % 60)

\* safe_datetime of get_directory_contents (lines 308-314)
SafeDatetimeListing(timestamp) ==
    IF timestamp = NoTime \/ timestamp = 0 THEN "N/A"
    ELSE Strftime(timestamp) \o " UTC"

\* the dictionary appended for one entry (lines 316-325)
DirEntry(e) ==
    [name |-> DecodeIgnore(e.name),
     is_directory |-> (e.kind = "DIR"),
     inode_number |-> IF e.kind = "NOMETA" THEN NoInode ELSE e.addr,
     size |-> IF e.kind = "NOMETA" THEN 0 ELSE e.size,
     accessed |-> IF e.kind = "NOMETA" THEN "N/A"
                  ELSE SafeDatetimeListing(e.times.atime),
     modified |-> IF e.kind = "NOMETA" THEN "N/A"
                  ELSE SafeDatetimeListing(e.times.mtime),
     created |-> IF e.kind = "NOMETA" \/ ~e.times.has_crtime THEN "N/A"
                 ELSE SafeDatetimeListing(e.times.crtime),
     changed |-> IF e.kind = "NOMETA" THEN "N/A"
                 ELSE SafeDatetimeListing(e.times.ctime)]

\* a plausible slip: no try around one entry, the exception leaves the loop
RECURSIVE ListEntries_NoEntryTry(_, _, _, _)
ListEntries_NoEntryTry(es, i, failAt, acc) ==
    IF i = failAt THEN [raised |-> TRUE, value |-> <<>>]
    ELSE IF i > Len(es) THEN [raised |-> FALSE, value |-> acc]
    ELSE IF es[i].kind = "BAD" THEN [raised |-> TRUE, value |-> <<>>]
    ELSE IF es[i].name \in { <<".">>, <<".", ".">> }
         THEN ListEntries_NoEntryTry(es, i + 1, failAt, acc)
    ELSE ListEntries_NoEntryTry(es, i + 1, failAt,
                                Append(acc, DirEntry(es[i])))

\* the loop of get_directory_contents (lines 301-328): raised is an
\* exception of the iteration itself, which leaves the loop
RECURSIVE ListEntries(_, _, _, _)
ListEntries(es, i, failAt, acc) ==
    IF i = failAt THEN [raised |-> TRUE, value |-> <<>>]
    ELSE IF i > Len(es) THEN [raised |-> FALSE, value |-> acc]
    ELSE IF es[i].kind = "BAD"
         THEN ListEntries(es, i + 1, failAt, acc)
    ELSE IF es[i].name \in { <<".">>, <<".", ".">> }
         THEN ListEntries(es, i + 1, failAt, acc)
    ELSE ListEntries(es, i + 1, failAt, Append(acc, DirEntry(es[i])))

\* fs.open_dir(path="/") for no inode, fs.open_dir(inode=...) otherwise:
\* the root, an empty subdirectory, or an exception
OpenDir(dir, inode) ==
    IF inode \in {NoInode, RootInode} THEN dir
    ELSE IF inode = SubdirInode /\ dir.opens
         THEN [opens |-> TRUE, iterFailAt |-> 0, entries |-> <<>>]
    ELSE NoDirectory

\* a plausible slip: the cache is never consulted
GetDirectoryContents_NoLookup(h, c, dir, off, inode) ==
    LET key == <<off, inode>>
        f == GetFsInfo(h, c, off)
        opened == OpenDir(dir, inode)
        r == ListEntries(opened.entries, 1, opened.iterFailAt, <<>>)
    IN  IF f.value = NoHandle \/ ~opened.opens \/ r.raised
        THEN [h |-> f.h, raised |-> FALSE, value |-> <<>>, mounted |-> TRUE]
        ELSE [h |-> [f.h EXCEPT !.directory_cache =
                        [k \in DOMAIN f.h.directory_cache \cup {key} |->
                            IF k = key THEN r.value
                            ELSE f.h.directory_cache[k]]],
              raised |-> FALSE, value |-> r.value, mounted |-> TRUE]

\* get_directory_contents (lines 287-337); mounted: the cache missed
GetDirectoryContents(h, c, dir, off, inode) ==
    LET key == <<off, inode>> IN
    IF key \in DOMAIN h.directory_cache
    THEN [h |-> h, raised |-> FALSE, value |-> h.directory_cache[key],
          mounted |-> FALSE]
    ELSE
    LET f == GetFsInfo(h, c, off)
        opened == OpenDir(dir, inode)
        r == ListEntries(opened.entries, 1, opened.iterFailAt, <<>>)
    IN  IF f.value = NoHandle \/ ~opened.opens \/ r.raised
        THEN [h |-> f.h, raised |-> FALSE, value |-> <<>>, mounted |-> TRUE]
        ELSE [h |-> [f.h EXCEPT !.directory_cache =
                        [k \in DOMAIN f.h.directory_cache \cup {key} |->
                            IF k = key THEN r.value
                            ELSE f.h.directory_cache[k]]],
              raised |-> FALSE, value |-> r.value, mounted |-> TRUE]

\* a plausible slip: the filesystem handles are dropped with the listings
ClearCache_DropsHandles(h) ==
    [h EXCEPT !.directory_cache = << >>, !.file_metadata_cache = << >>,
              !.fs_info_cache = << >>]

\* clear_cache (lines 600-604)
ClearCache(h) ==
    [h EXCEPT !.directory_cache = << >>, !.file_metadata_cache = << >>]

(***************************************************************************)
(* Byte strings read from the image or from a file are kept as the ranges  *)
(* of positions they were read from: <<lo, hi>> is the bytes at [lo, hi).  *)
(* Appending a chunk that continues the last range extends it, so a value  *)
(* is the same however it was cut into chunks; <<>> is the empty string.   *)
(***************************************************************************)
Min(a, b) == IF a < b THEN a ELSE b
Max(a, b) == IF a > b THEN a ELSE b

Bytes(lo, hi) == IF hi > lo THEN << <<lo, hi>> >> ELSE <<>>

\* data.extend(chunk) for a chunk that is one range or empty
Extend(data, chunk) ==
    IF chunk = <<>> THEN data
    ELSE IF data # <<>> /\ data[Len(data)][2] = chunk[1][1]
         THEN [data EXCEPT ![Len(data)] = <<data[Len(data)][1], chunk[1][2]>>]
    ELSE data \o chunk

\* image sizes, and the offsets, sizes and sector ranges that are read
ImageSizes == {k * READ_BUFFER_SIZE + d : k \in 1..MaxBuffers, d \in {0, 5}}
ReadOffsets(S) == {0, READ_BUFFER_SIZE, S - 1, S}
ReadSizes == {1, SECTOR_SIZE, READ_BUFFER_SIZE, READ_BUFFER_SIZE + 1,
              (MaxBuffers + 1) * READ_BUFFER_SIZE}
StartSectors == {0, READ_BUFFER_SIZE \div SECTOR_SIZE}
EndSectors == {-1, 0, (READ_BUFFER_SIZE \div SECTOR_SIZE) - 1,
               (MaxBuffers + 1) * (READ_BUFFER_SIZE \div SECTOR_SIZE)}

RECURSIVE ByteLen(_)
ByteLen(data) ==
    IF data = <<>> THEN 0
    ELSE (Head(data)[2] - Head(data)[1]) + ByteLen(Tail(data))

(***************************************************************************)
(* EWFImgInfo over a pyewf handle.  e is [size, cursor, last_offset].      *)
(* pyewf: seek moves the cursor; read returns the bytes from the cursor up *)
(* to the end of the media and advances the cursor, or raises (an I/O      *)
(* error while fetching data) and leaves the cursor where it was.          *)
(***************************************************************************)
EwfState == [size |-> media_size, cursor |-> ewf_cursor,
             last_offset |-> last_offset]

HandleSeek(e, offset) == [e EXCEPT !.cursor = offset]

HandleRead(e, n, fails) ==
    LET avail == IF e.cursor < e.size THEN Min(n, e.size - e.cursor) ELSE 0
    IN  IF fails /\ avail > 0
        THEN [e |-> e, raised |-> TRUE, data |-> <<>>, len |-> 0]
        ELSE [e |-> [e EXCEPT !.cursor = e.cursor + avail], raised |-> FALSE,
              data |-> Bytes(e.cursor, e.cursor + avail), len |-> avail]

\* the loop of EWFImgInfo.read (lines 40-50); n counts the handle reads
RECURSIVE EwfReadLoop(_, _, _, _, _, _)
EwfReadLoop(e, remaining, current_offset, data, n, failAt) ==
    IF remaining > 0
    THEN LET chunk_size == Min(remaining, READ_BUFFER_SIZE)
             r == HandleRead(HandleSeek(e, current_offset), chunk_size,
                             n = failAt)
         IN  IF r.raised
             THEN [e |-> r.e, raised |-> TRUE, value |-> <<>>, reads |-> n]
             ELSE IF r.len = 0
             THEN [e |-> [r.e EXCEPT !.last_offset = current_offset],
                   raised |-> FALSE, value |-> data, reads |-> n]
             ELSE EwfReadLoop(r.e, remaining - r.len, current_offset + r.len,
                              Extend(data, r.data), n + 1, failAt)
    ELSE [e |-> [e EXCEPT !.last_offset = current_offset],
          raised |-> FALSE, value |-> data, reads |-> n - 1]

\* a plausible slip: _last_offset is not advanced after a single-shot read
EwfRead_StaleLastOffset(e, offset, size, failAt) ==
    LET e1 == IF e.last_offset # offset
              THEN [HandleSeek(e, offset) EXCEPT !.last_offset = offset]
              ELSE e
    IN  IF size > READ_BUFFER_SIZE
        THEN EwfReadLoop(e1, size, offset, <<>>, 1, failAt)
        ELSE LET r == HandleRead(e1, size, failAt = 1) IN
             [e |-> r.e, raised |-> r.raised, value |-> r.data, reads |-> 1]

\* EWFImgInfo.read (lines 28-54); failAt: which handle read raises, 0: none
EwfRead(e, offset, size, failAt) ==
    LET e1 == IF e.last_offset # offset
              THEN [HandleSeek(e, offset) EXCEPT !.last_offset = offset]
              ELSE e
    IN  IF size > READ_BUFFER_SIZE
        THEN EwfReadLoop(e1, size, offset, <<>>, 1, failAt)
        ELSE LET r == HandleRead(e1, size, failAt = 1) IN
             IF r.raised
             THEN [e |-> r.e, raised |-> TRUE, value |-> <<>>, reads |-> 1]
             ELSE [e |-> [r.e EXCEPT !.last_offset =
                             IF r.len > 0 THEN offset + r.len ELSE offset],
                   raised |-> FALSE, value |-> r.data, reads |-> 1]

\* read(offset, size) that seeks to offset before it reads, whatever
\* _last_offset is: the reading the comment of line 29 takes the
\* optimization to be equal to
EwfReadAlwaysSeek(e, offset, size, failAt) ==
    EwfRead([e EXCEPT !.last_offset = -1], offset, size, failAt)

\* a plausible slip: the end of the range is taken as given, without the
\* max() of line 426
ReadUnallocatedSpace_NoMax(e, start_offset, end_offset, failAt) ==
    LET start_byte_offset == start_offset * SECTOR_SIZE
        end_byte_offset == end_offset * SECTOR_SIZE
        size0 == end_byte_offset - start_byte_offset + 1
        size_in_bytes == IF size0 <= 0 THEN SECTOR_SIZE ELSE size0
        r == EwfRead(e, start_byte_offset, size_in_bytes, failAt)
    IN  [e |-> r.e, raised |-> FALSE, failed |-> r.raised,
         isNone |-> (r.raised \/ r.value = <<>>),
         value |-> IF r.raised THEN <<>> ELSE r.value,
         req |-> <<start_byte_offset, size_in_bytes>>]

\* a plausible slip: no try, an exception of the image read propagates
ReadUnallocatedSpace_NoTry(e, start_offset, end_offset, failAt) ==
    LET start_byte_offset == start_offset * SECTOR_SIZE
        end_byte_offset == Max(end_offset * SECTOR_SIZE,
                               start_byte_offset + SECTOR_SIZE - 1)
        size0 == end_byte_offset - start_byte_offset + 1
        size_in_bytes == IF size0 <= 0 THEN SECTOR_SIZE ELSE size0
        r == EwfRead(e, start_byte_offset, size_in_bytes, failAt)
    IN  [e |-> r.e, raised |-> r.raised, failed |-> r.raised,
         isNone |-> (r.raised \/ r.value = <<>>), value |-> r.value,
         req |-> <<start_byte_offset, size_in_bytes>>]

\* read_unallocated_space (lines 423-441); isNone: the result is None
ReadUnallocatedSpace(e, start_offset, end_offset, failAt) ==
    LET start_byte_offset == start_offset * SECTOR_SIZE
        end_byte_offset == Max(end_offset * SECTOR_SIZE,
                               start_byte_offset + SECTOR_SIZE - 1)
        size0 == end_byte_offset - start_byte_offset + 1
        size_in_bytes == IF size0 <= 0 THEN SECTOR_SIZE ELSE size0
        r == EwfRead(e, start_byte_offset, size_in_bytes, failAt)
    IN  [e |-> r.e, raised |-> FALSE, failed |-> r.raised,
         isNone |-> (r.raised \/ r.value = <<>>),
         value |-> IF r.raised THEN <<>> ELSE r.value,
         req |-> <<start_byte_offset, size_in_bytes>>]

(***************************************************************************)
(* Files.  file is what fs.open_meta(inode=FileInode) / fs_info.open(path) *)
(* gives: hasMeta is false when info.meta is None.  A plan says how the    *)
(* read_random calls of one operation behave: all as asked ("ok"), or the  *)
(* at-th one raises, returns nothing ("zero") or returns half ("short").   *)
(***************************************************************************)
MissingInode == 99

FileSizes ==
    {0, 1, LARGE_FILE_THRESHOLD, LARGE_FILE_THRESHOLD + 1}
    \cup {k * CHUNK_SIZE + d : k \in 1..MaxChunks, d \in {0, 1}}

Files ==
    { [hasMeta |-> TRUE, size |-> n] : n \in FileSizes }
    \cup { [hasMeta |-> FALSE, size |-> 0] }

NoFile == [hasMeta |-> FALSE, size |-> 0]

Plans ==
    { [kind |-> "ok", at |-> 0] }
    \cup { [kind |-> k, at |-> i] : k \in {"raise", "zero", "short"},
                                    i \in 1..2 }

\* file_obj.read_random(offset, n), the i-th of the operation
ReadRandom(f, offset, n, i, plan) ==
    LET avail == Max(0, Min(n, f.size - offset))
        hit == plan.at = i
    IN  IF hit /\ plan.kind = "raise"
        THEN [raised |-> TRUE, data |-> <<>>, len |-> 0]
        ELSE IF hit /\ plan.kind = "zero"
        THEN [raised |-> FALSE, data |-> <<>>, len |-> 0]
        ELSE IF hit /\ plan.kind = "short"
        THEN [raised |-> FALSE, data |-> Bytes(offset, offset + avail \div 2),
              len |-> avail \div 2]
        ELSE [raised |-> FALSE, data |-> Bytes(offset, offset + avail),
              len |-> avail]

\* a plausible slip: the loop stops one byte early (remaining > 1)
RECURSIVE FileReadLoop_DropsTail(_, _, _, _, _, _, _)
FileReadLoop_DropsTail(f, remaining, current_offset, content, reqs, i, plan) ==
    IF remaining > 1
    THEN LET chunk_size == Min(remaining, CHUNK_SIZE)
             r == ReadRandom(f, current_offset, chunk_size, i, plan)
             reqs1 == Append(reqs, <<current_offset, chunk_size>>)
         IN  IF r.raised
             THEN [raised |-> TRUE, value |-> <<>>, reqs |-> reqs1]
             ELSE IF r.len = 0
             THEN [raised |-> FALSE, value |-> content, reqs |-> reqs1]
             ELSE FileReadLoop_DropsTail(f, remaining - r.len,
                      current_offset + r.len, Extend(content, r.data),
                      reqs1, i + 1, plan)
    ELSE [raised |-> FALSE, value |-> content, reqs |-> reqs]

\* the chunk loop of get_file_content (lines 579-586) and of
\* get_registry_hive (lines 351-358); reqs: the read_random calls made
RECURSIVE FileReadLoop(_, _, _, _, _, _, _)
FileReadLoop(f, remaining, current_offset, content, reqs, i, plan) ==
    IF remaining > 0
    THEN LET chunk_size == Min(remaining, CHUNK_SIZE)
             r == ReadRandom(f, current_offset, chunk_size, i, plan)
             reqs1 == Append(reqs, <<current_offset, chunk_size>>)
         IN  IF r.raised
             THEN [raised |-> TRUE, value |-> <<>>, reqs |-> reqs1]
             ELSE IF r.len = 0
             THEN [raised |-> FALSE, value |-> content, reqs |-> reqs1]
             ELSE FileReadLoop(f, remaining - r.len, current_offset + r.len,
                               Extend(content, r.data), reqs1, i + 1, plan)
    ELSE [raised |-> FALSE, value |-> content, reqs |-> reqs]

\* the read of an open file object: chunked above the threshold
ReadWhole(f, plan) ==
    IF f.size > LARGE_FILE_THRESHOLD
    THEN FileReadLoop(f, f.size, 0, <<>>, <<>>, 1, plan)
    ELSE LET r == ReadRandom(f, 0, f.size, 1, plan) IN
         [raised |-> r.raised, value |-> r.data,
          reqs |-> << <<0, f.size>> >>]

\* file_obj.info.meta, and None in its place
Metadata(f) == [none |-> FALSE, size |-> f.size]
NoMetadata == [none |-> TRUE, size |-> 0]

NoneNone(h, readRaised, reqs) ==
    [h |-> h, raised |-> FALSE, isNone |-> TRUE, readRaised |-> readRaised,
     content |-> <<>>, metadata |-> NoMetadata, reqs |-> reqs]

\* a plausible slip: the size-0 test is missing
GetFileContent_NoZeroCheck(h, c, f, inode_number, offset, plan) ==
    LET g == GetFsInfo(h, c, offset) IN
    IF g.value = NoHandle THEN NoneNone(g.h, FALSE, <<>>)
    ELSE IF inode_number # FileInode \/ ~f.hasMeta
    THEN NoneNone(g.h, FALSE, <<>>)
    ELSE LET r == ReadWhole(f, plan) IN
         IF r.raised THEN NoneNone(g.h, TRUE, r.reqs)
         ELSE [h |-> g.h, raised |-> FALSE, isNone |-> FALSE,
               readRaised |-> FALSE, content |-> r.value,
               metadata |-> Metadata(f), reqs |-> r.reqs]

\* get_file_content (lines 558-596).  isNone: the result is (None, None);
\* readRaised: a read_random call raised
GetFileContent(h, c, f, inode_number, offset, plan) ==
    LET g == GetFsInfo(h, c, offset) IN
    IF g.value = NoHandle THEN NoneNone(g.h, FALSE, <<>>)
    ELSE IF inode_number # FileInode \/ ~f.hasMeta
    THEN NoneNone(g.h, FALSE, <<>>)
    ELSE IF f.size = 0 THEN NoneNone(g.h, FALSE, <<>>)
    ELSE LET r == ReadWhole(f, plan) IN
         IF r.raised THEN NoneNone(g.h, TRUE, r.reqs)
         ELSE [h |-> g.h, raised |-> FALSE, isNone |-> FALSE,
               readRaised |-> FALSE, content |-> r.value,
               metadata |-> Metadata(f), reqs |-> r.reqs]

\* get_registry_hive (lines 339-365) on the handle fs; present: the hive
\* path exists
GetRegistryHive(fs, f, present, plan) ==
    IF fs = NoHandle \/ ~present \/ ~f.hasMeta
    THEN [raised |-> FALSE, isNone |-> TRUE, readRaised |-> FALSE,
          content |-> <<>>, reqs |-> <<>>]
    ELSE LET r == ReadWhole(f, plan) IN
         IF r.raised
         THEN [raised |-> FALSE, isNone |-> TRUE, readRaised |-> TRUE,
               content |-> <<>>, reqs |-> r.reqs]
         ELSE [raised |-> FALSE, isNone |-> FALSE, readRaised |-> FALSE,
               content |-> r.value, reqs |-> r.reqs]

(***************************************************************************)
(* The Windows version from the SOFTWARE hive (lines 237-272, 367-421).    *)
(***************************************************************************)
\* values of fs_info.info.ftype
FsTypes == {"TSK_FS_TYPE_NTFS", "TSK_FS_TYPE_FAT32", "TSK_FS_TYPE_YAFFS2"}

\* get_fs_type (lines 237-272) on the handle fs of get_fs_info(start_offset)
GetFsType(fs, ftype) ==
    IF fs = NoHandle THEN "N/A"
    ELSE CASE ftype = "TSK_FS_TYPE_NTFS" -> "NTFS"
           [] ftype = "TSK_FS_TYPE_FAT12" -> "FAT12"
           [] ftype = "TSK_FS_TYPE_FAT16" -> "FAT16"
           [] ftype = "TSK_FS_TYPE_FAT32" -> "FAT32"
           [] ftype = "TSK_FS_TYPE_EXFAT" -> "ExFAT"
           [] ftype = "TSK_FS_TYPE_EXT2" -> "Ext2"
           [] ftype = "TSK_FS_TYPE_EXT3" -> "Ext3"
           [] ftype = "TSK_FS_TYPE_EXT4" -> "Ext4"
           [] ftype = "TSK_FS_TYPE_ISO9660" -> "ISO9660"
           [] ftype = "TSK_FS_TYPE_HFS" -> "HFS"
           [] ftype = "TSK_FS_TYPE_APFS" -> "APFS"
           [] OTHER -> "Unknown"

\* what happens to the temporary hive: every step works, or the write to
\* the temporary file raises, or Registry.Registry(path) raises, or
\* reg.open(key) raises, or the key is there and its values are missing
RegPlans == {"ok", "write_raises", "parser_raises", "open_raises",
             "values_missing"}

\* the name NamedTemporaryFile gives the next file in the directory temps
NamedTemporaryFile(temps) == Cardinality(temps) + 1

\* get_windows_version (lines 367-421).  temp: the temporary file the call
\* created, 0 when it created none; temps: the temporary directory after
\* the call
GetWindowsVersion(h, c, f, ftype, start_offset, present, plan, reg, temps) ==
    LET g == GetFsInfo(h, c, start_offset)
        hive == GetRegistryHive(g.value, f, present, plan)
        temp_hive_path == NamedTemporaryFile(temps)
        none == [h |-> g.h, raised |-> FALSE, value |-> "None", temp |-> 0,
                 temps |-> temps]
    IN  IF g.value = NoHandle THEN none
        ELSE IF GetFsType(g.value, ftype) # "NTFS" THEN none
        ELSE IF hive.isNone \/ ByteLen(hive.content) = 0 THEN none
        ELSE IF reg \in {"write_raises", "parser_raises", "open_raises"}
        THEN [h |-> g.h, raised |-> FALSE,
              value |-> "Error in parsing OS version",
              temp |-> temp_hive_path,
              temps |-> temps \cup {temp_hive_path}]
        ELSE [h |-> g.h, raised |-> FALSE,
              value |-> IF reg = "values_missing"
                        THEN "N/A Version N/A"
                        ELSE "Windows 10 Pro Version 6.3",
              temp |-> temp_hive_path,
              temps |-> (temps \cup {temp_hive_path}) \ {temp_hive_path}]

(***************************************************************************)
(* The recursive walk: list_files, search_files (lines 453-555).  Names    *)
(* and extensions are sequences of characters; "FF" is a byte that is      *)
(* not valid UTF-8.                                                        *)
(***************************************************************************)
Upper == <<"A", "B", "C", "D", "E", "F", "G", "H", "I", "J", "K", "L", "M",
           "N", "O", "P", "Q", "R", "S", "T", "U", "V", "W", "X", "Y", "Z">>
Lower == <<"a", "b", "c", "d", "e", "f", "g", "h", "i", "j", "k", "l", "m",
           "n", "o", "p", "q", "r", "s", "t", "u", "v", "w", "x", "y", "z">>

\* str.lower()
StrLower(str) ==
    [i \in 1..Len(str) |->
        IF \E k \in 1..Len(Upper) : Upper[k] = str[i]
        THEN Lower[CHOOSE k \in 1..Len(Upper) : Upper[k] = str[i]]
        ELSE str[i]]

\* os.path.splitext(name)[1]: from the last dot on, unless only dots come
\* before it
Splitext(name) ==
    LET dots == {i \in 1..Len(name) : name[i] = "."} IN
    IF dots = {} THEN <<>>
    ELSE LET dotIndex == CHOOSE i \in dots : \A j \in dots : j <= i IN
         IF \E j \in 1..(dotIndex - 1) : name[j] # "."
         THEN SubSeq(name, dotIndex, Len(name))
         ELSE <<>>

\* needle in hay
Contains(hay, needle) ==
    \E i \in 1..(Len(hay) - Len(needle) + 1) :
        SubSeq(hay, i, i + Len(needle) - 1) = needle

\* os.path.join(parent_path, file_name)
PathJoin(parent_path, file_name) ==
    IF file_name # <<>> /\ Head(file_name) = "/" THEN file_name
    ELSE IF parent_path = <<>> \/ parent_path[Len(parent_path)] = "/"
    THEN parent_path \o file_name
    ELSE parent_path \o <<"/">> \o file_name

\* the extensions argument: None, or a list of extensions
NoExtensions == [none |-> TRUE, list |-> {}]
ExtensionList(l) == [none |-> FALSE, list |-> l]

\* query_matches (lines 483-493); search_query <<>> is None or ""
QueryMatches(file_name, extensions, search_query) ==
    LET file_extension == StrLower(Splitext(file_name)) IN
    IF search_query # <<>>
    THEN IF Head(search_query) = "."
         THEN file_extension = StrLower(search_query)
         ELSE Contains(StrLower(file_name), StrLower(search_query))
    ELSE \/ extensions.none
         \/ file_extension \in extensions.list
         \/ <<>> \in extensions.list

\* safe_datetime of get_file_metadata (lines 514-520)
SafeDatetimeMetadata(timestamp) ==
    IF timestamp = NoTime THEN "N/A" ELSE Strftime(timestamp)

\* get_file_metadata (lines 513-532); raised: name.decode("utf-8") raised
GetFileMetadata(e, parent_path) ==
    IF \E i \in 1..Len(e.name) : e.name[i] = "FF"
    THEN [raised |-> TRUE, value |-> <<>>]
    ELSE [raised |-> FALSE,
          value |-> [name |-> e.name,
                     path |-> PathJoin(parent_path, e.name),
                     size |-> e.size,
                     accessed |-> SafeDatetimeMetadata(e.times.atime),
                     modified |-> SafeDatetimeMetadata(e.times.mtime),
                     created |-> IF e.times.has_crtime
                                 THEN SafeDatetimeMetadata(e.times.crtime)
                                 ELSE "N/A",
                     changed |-> SafeDatetimeMetadata(e.times.ctime),
                     inode_item |-> ToString(e.addr)]]

\* fs_info.open_dir(inode=addr) of the walk
WalkOpenDir(sub, addr) == IF addr = SubdirInode THEN sub ELSE NoDirectory

\* recursive_file_search (lines 475-511) from entry i of a directory on;
\* raised: the iteration of this directory raised.  files_list is shared
\* by all levels, so what a failed level appended stays in it.
RECURSIVE RecursiveFileSearch(_, _, _, _, _, _, _, _)
RecursiveFileSearch(sub, es, i, failAt, parent_path, files_list, extensions, search_query) ==
    IF i = failAt THEN [raised |-> TRUE, value |-> files_list]
    ELSE IF i > Len(es) THEN [raised |-> FALSE, value |-> files_list]
    ELSE
    LET entry == es[i]
        file_name == DecodeIgnore(entry.name)
        skip == RecursiveFileSearch(sub, es, i + 1, failAt, parent_path,
                                    files_list, extensions, search_query)
    IN  IF entry.name \in { <<".">>, <<".", ".">> } THEN skip
        ELSE IF entry.kind = "BAD" THEN skip
        ELSE IF entry.kind = "DIR"
        THEN LET sub_directory == WalkOpenDir(sub, entry.addr) IN
             IF ~sub_directory.opens THEN skip
             ELSE LET r == RecursiveFileSearch(
                               sub, sub_directory.entries, 1,
                               sub_directory.iterFailAt,
                               PathJoin(parent_path, file_name), files_list,
                               extensions, search_query)
                  IN  RecursiveFileSearch(sub, es, i + 1, failAt,
                                          parent_path, r.value, extensions,
                                          search_query)
        ELSE IF entry.kind = "REG"
                /\ QueryMatches(file_name, extensions, search_query)
        THEN LET file_info == GetFileMetadata(entry, parent_path) IN
             IF file_info.raised THEN skip
             ELSE RecursiveFileSearch(sub, es, i + 1, failAt, parent_path,
                                      Append(files_list, file_info.value),
                                      extensions, search_query)
        ELSE skip

\* process_partition / process_partition_search (lines 467-472, 550-555)
\* at offset 0: FS_Info and open_dir raise IOError, which is caught
ProcessPartition(c, dir, sub, extensions, search_query) ==
    IF 0 \notin c.fsAt \/ ~dir.opens
    THEN [raised |-> FALSE, value |-> <<>>]
    ELSE RecursiveFileSearch(sub, dir.entries, 1, dir.iterFailAt, <<"/">>,
                             <<>>, extensions, search_query)

\* list_files (lines 453-465) on an image whose volume-table parse raises
\* IOError
ListFiles(c, dir, sub, extensions) ==
    ProcessPartition(c, dir, sub, extensions, <<>>)

\* search_files (lines 535-548) on such an image
SearchFiles(c, dir, sub, search_query) ==
    ProcessPartition(c, dir, sub, NoExtensions, search_query)

\* the directory entries a walk meets
WalkPool ==
    { RawEntry(<<".">>, "DIR", 5, 0,
               Times(SomeTime, SomeTime, SomeTime, SomeTime, TRUE)),
      RawEntry(<<"a", ".", "j", "p", "g">>, "REG", 10, 1,
               Times(0, SomeTime, NoTime, OtherTime, TRUE)),
      RawEntry(<<"B", ".", "J", "P", "G">>, "REG", 14, 3,
               Times(SomeTime, SomeTime, SomeTime, SomeTime, TRUE)),
      RawEntry(<<"n", "o", "t", "e", "s", ".", "t", "x", "t">>, "REG", 15, 4,
               Times(OtherTime, OtherTime, OtherTime, OtherTime, TRUE)),
      RawEntry(<<"R", "E", "A", "D", "M", "E">>, "REG", 16, 5,
               Times(SomeTime, OtherTime, SomeTime, OtherTime, FALSE)),
      RawEntry(<<"x", "FF", ".", "j", "p", "g">>, "REG", 13, 2,
               Times(OtherTime, OtherTime, OtherTime, SomeTime, TRUE)),
      RawEntry(<<"d">>, "DIR", 11, 0, Times(0, 0, 0, 0, TRUE)),
      RawEntry(<<"m">>, "NOMETA", 0, 0,
               Times(NoTime, NoTime, NoTime, NoTime, FALSE)),
      RawEntry(<<"e">>, "BAD", 12, 7,
               Times(SomeTime, SomeTime, SomeTime, SomeTime, TRUE)) }

\* the root directories of a walk
WalkDirectories ==
    { [opens |-> TRUE, iterFailAt |-> 0, entries |-> es] :
        es \in SeqsUpTo(WalkPool, MaxWalkEntries) }
    \cup { NoDirectory }

\* the directories behind SubdirInode: one entry that is no directory
WalkSubdirectories ==
    { [opens |-> TRUE, iterFailAt |-> k, entries |-> <<e>>] :
        k \in {0, 1}, e \in {x \in WalkPool : x.kind # "DIR"} }
    \cup { NoDirectory, EmptyDirectory }

\* the extension lists and the queries the callers pass
ExtensionArgs ==
    { NoExtensions, ExtensionList({}),
      ExtensionList({<<".", "j", "p", "g">>}),
      ExtensionList({<<".", "J", "P", "G">>}),
      ExtensionList({<<>>, <<".", "j", "p", "g">>}),
      ExtensionList({<<".", "t", "x", "t">>}) }
QueryArgs ==
    { <<>>, <<".", "j", "p", "g">>, <<".", "J", "P", "G">>,
      <<"n", "o", "t", "e">>, <<"E", "A">> }

(***************************************************************************)
(* ZIP files inside the image (mainwindow.py:1153-1270).  A member is its  *)
(* stored path, its stored bytes, its date and whether its CRC matches.    *)
(***************************************************************************)
Member(fn, data, dt, ok) ==
    [filename |-> fn, data |-> data, date_time |-> dt, crc_ok |-> ok]

\* the smallest ZIP file: an end-of-central-directory record
MinZipSize == 22

\* signature: the bytes start with PK; valid: zipfile.ZipFile accepts the
\* complete bytes
NoArchive == [signature |-> FALSE, valid |-> FALSE, members |-> <<>>]

Archives ==
    { NoArchive,
      \* a.txt, dir/, dir/b.txt
      [signature |-> TRUE, valid |-> TRUE,
       members |-> << Member(<<"a", ".", "t", "x", "t">>, <<"A">>,
                             <<2024, 2, 29, 23, 59, 58>>, TRUE),
                      Member(<<"d", "i", "r", "/">>, <<>>,
                             <<1980, 0, 0, 0, 0, 0>>, TRUE),
                      Member(<<"d", "i", "r", "/", "b", ".", "t", "x", "t">>,
                             <<"B", "B">>, <<1980, 1, 1, 0, 0, 0>>, TRUE) >>],
      \* an empty archive
      [signature |-> TRUE, valid |-> TRUE, members |-> <<>>],
      \* a member that fails its CRC
      [signature |-> TRUE, valid |-> TRUE,
       members |-> << Member(<<"c">>, <<"C">>, <<2023, 2, 29, 0, 0, 0>>,
                             FALSE) >>],
      \* PK at the start and no readable central directory
      [signature |-> TRUE, valid |-> FALSE, members |-> <<>>],
      \* a ZIP behind other leading bytes
      [signature |-> FALSE, valid |-> TRUE,
       members |-> << Member(<<"a", ".", "t", "x", "t">>, <<"A">>,
                             <<2024, 2, 29, 23, 59, 58>>, TRUE) >>] }

\* the member paths asked for
ZipPaths ==
    { <<"a", ".", "t", "x", "t">>, <<"d", "i", "r", "/">>,
      <<"d", "i", "r", "/", "b", ".", "t", "x", "t">>, <<"c">>,
      <<"z">> }

\* str.endswith('/') and str.rstrip('/')
EndsWithSlash(str) == str # <<>> /\ str[Len(str)] = "/"
RECURSIVE RstripSlash(_)
RstripSlash(str) ==
    IF EndsWithSlash(str) THEN RstripSlash(SubSeq(str, 1, Len(str) - 1))
    ELSE str

\* datetime(*date_time) accepts the date
DaysInMonth(y, m) ==
    IF m = 2
    THEN IF (y % 4 = 0 /\ y % 100 # 0) \/ y % 400 = 0 THEN 29 ELSE 28
    ELSE IF m \in {4, 6, 9, 11} THEN 30 ELSE 31
ValidDateTime(dt) ==
    /\ dt[1] \in 1..9999
    /\ dt[2] \in 1..12
    /\ dt[3] \in 1..DaysInMonth(dt[1], dt[2])
    /\ dt[4] \in 0..23
    /\ dt[5] \in 0..59
    /\ dt[6] \in 0..59

\* lines 1170-1190: datetime(*date_time).strftime('%Y-%m-%d %H:%M:%S')
ZipDateText(dt) ==
    IF ValidDateTime(dt)
    THEN ToString(dt[1]) \o "-" \o Pad2(dt[2]) \o "-" \o Pad2(dt[3]) \o " "
            \o Pad2(dt[4]) \o ":" \o Pad2(dt[5]) \o ":" \o Pad2(dt[6])
    ELSE "N/A"

\* the dictionary appended for one member (lines 1193-1206)
ZipEntry(m, inode_number, start_offset) ==
    [name |-> RstripSlash(m.filename),
     path |-> m.filename,
     size |-> Len(m.data),
     is_directory |-> EndsWithSlash(m.filename),
     inode_number |-> NoInode,
     created |-> ZipDateText(m.date_time),
     accessed |-> ZipDateText(m.date_time),
     modified |-> ZipDateText(m.date_time),
     changed |-> ZipDateText(m.date_time),
     zip_path |-> m.filename,
     zip_parent_inode |-> inode_number,
     zip_parent_offset |-> start_offset]

\* file_content[:2] == b'PK' on the bytes get_file_content returned
StartsWithPK(a, content) ==
    a.signature /\ content # <<>> /\ ByteLen(content) >= 2

\* zipfile.ZipFile(io.BytesIO(file_content)) does not raise: the central
\* directory at the end of the file is there
ZipFileOpens(a, f, content) ==
    a.valid /\ ByteLen(content) = f.size

\* a plausible slip: the signature is not tested
GetZipContents_NoSignatureCheck(h, c, f, a, inode_number, start_offset, plan) ==
    LET g == GetFileContent(h, c, f, inode_number, start_offset, plan)
        none == [h |-> g.h, raised |-> FALSE, isNone |-> TRUE,
                 value |-> <<>>, content |-> g.content]
    IN  IF g.isNone \/ ByteLen(g.content) = 0 THEN none
        ELSE IF ~ZipFileOpens(a, f, g.content) THEN none
        ELSE [h |-> g.h, raised |-> FALSE, isNone |-> FALSE,
              value |-> [i \in 1..Len(a.members) |->
                            ZipEntry(a.members[i], inode_number,
                                     start_offset)],
              content |-> g.content]

\* _get_zip_contents (lines 1153-1220); content: the bytes of the host file
GetZipContents(h, c, f, a, inode_number, start_offset, plan) ==
    LET g == GetFileContent(h, c, f, inode_number, start_offset, plan)
        none == [h |-> g.h, raised |-> FALSE, isNone |-> TRUE,
                 value |-> <<>>, content |-> g.content]
    IN  IF g.isNone \/ ByteLen(g.content) = 0 THEN none
        ELSE IF ~StartsWithPK(a, g.content) THEN none
        ELSE IF ~ZipFileOpens(a, f, g.content) THEN none
        ELSE [h |-> g.h, raised |-> FALSE, isNone |-> FALSE,
              value |-> [i \in 1..Len(a.members) |->
                            ZipEntry(a.members[i], inode_number,
                                     start_offset)],
              content |-> g.content]

\* zip_file.read(zip_path): the last member stored under that path
ZipRead(a, zip_path) ==
    LET named == {i \in 1..Len(a.members) :
                    a.members[i].filename = zip_path} IN
    IF named = {} THEN [raised |-> TRUE, data |-> <<>>]
    ELSE LET m == a.members[CHOOSE i \in named : \A j \in named : j <= i]
         IN  IF m.crc_ok THEN [raised |-> FALSE, data |-> m.data]
             ELSE [raised |-> TRUE, data |-> <<>>]

\* _extract_zip_entry (lines 1257-1270)
ExtractZipEntry(h, c, f, a, zip_parent_inode, zip_parent_offset, zip_path, plan) ==
    LET g == GetFileContent(h, c, f, zip_parent_inode, zip_parent_offset,
                            plan)
        r == ZipRead(a, zip_path)
        none == [h |-> g.h, raised |-> FALSE, isNone |-> TRUE,
                 value |-> <<>>, content |-> g.content]
    IN  IF g.isNone \/ ByteLen(g.content) = 0 THEN none
        ELSE IF ~ZipFileOpens(a, f, g.content) THEN none
        ELSE IF r.raised THEN none
        ELSE [h |-> g.h, raised |-> FALSE, isNone |-> FALSE,
              value |-> r.data, content |-> g.content]

(***************************************************************************)
(* calculate_hashes (lines 110-159).  A hashlib object is the algorithm    *)
(* and the bytes fed to it; its digest is determined by the two.           *)
(***************************************************************************)
HashNew(alg) == [alg |-> alg, fed |-> <<>>]
HashUpdate(hsh, chunk) == [hsh EXCEPT !.fed = Extend(@, chunk)]
HexDigest(hsh) == hsh

\* get_hash_value(name) of the container: a digest, None, or an exception
StoredValues == {"raises", "None", "stored digest"}
NoStoredHashes == [md5 |-> "None", sha1 |-> "None"]
StoredHashes == [md5 : StoredValues, sha1 : StoredValues]

\* a read returns all it was asked for, or part of it, or raises
HashPlans == {p \in Plans : p.kind # "zero"}

\* read(READ_BUFFER_SIZE) number i of a handle at cursor over N bytes
SequentialRead(N, cursor, i, plan) ==
    LET avail == Max(0, Min(READ_BUFFER_SIZE, N - cursor))
        hit == plan.at = i /\ avail > 1
    IN  IF hit /\ plan.kind = "raise"
        THEN [raised |-> TRUE, data |-> <<>>, len |-> 0]
        ELSE IF hit /\ plan.kind = "short"
        THEN [raised |-> FALSE, data |-> Bytes(cursor, cursor + avail \div 2),
              len |-> avail \div 2]
        ELSE [raised |-> FALSE, data |-> Bytes(cursor, cursor + avail),
              len |-> avail]

NewHashes ==
    [md5 |-> HashNew("md5"), sha1 |-> HashNew("sha1"),
     sha256 |-> HashNew("sha256"), size |-> 0, events |-> <<>>]

\* a plausible slip: only full buffers are hashed
RECURSIVE HashLoop_FullBuffersOnly(_, _, _, _, _)
HashLoop_FullBuffersOnly(N, cursor, st, i, plan) ==
    LET r == SequentialRead(N, cursor, i, plan)
        read == Append(st.events, <<"read", cursor, r.len>>)
    IN  IF r.raised THEN [raised |-> TRUE, st |-> [st EXCEPT !.events = read]]
        ELSE IF r.len = 0
        THEN [raised |-> FALSE, st |-> [st EXCEPT !.events = read]]
        ELSE IF r.len < READ_BUFFER_SIZE
        THEN HashLoop_FullBuffersOnly(N, cursor + r.len,
                 [st EXCEPT !.events = read], i + 1, plan)
        ELSE HashLoop_FullBuffersOnly(N, cursor + r.len,
                 [md5 |-> HashUpdate(st.md5, r.data),
                  sha1 |-> HashUpdate(st.sha1, r.data),
                  sha256 |-> HashUpdate(st.sha256, r.data),
                  size |-> st.size + r.len,
                  events |-> read \o << <<"md5", cursor, r.len>>,
                                        <<"sha1", cursor, r.len>>,
                                        <<"sha256", cursor, r.len>> >>],
                 i + 1, plan)

\* the read loops (lines 131-145); events: the reads and the updates in
\* the order they are made, each with the offset and length of its chunk
RECURSIVE HashLoop(_, _, _, _, _)
HashLoop(N, cursor, st, i, plan) ==
    LET r == SequentialRead(N, cursor, i, plan)
        read == Append(st.events, <<"read", cursor, r.len>>)
    IN  IF r.raised THEN [raised |-> TRUE, st |-> [st EXCEPT !.events = read]]
        ELSE IF r.len = 0
        THEN [raised |-> FALSE, st |-> [st EXCEPT !.events = read]]
        ELSE HashLoop(N, cursor + r.len,
                 [md5 |-> HashUpdate(st.md5, r.data),
                  sha1 |-> HashUpdate(st.sha1, r.data),
                  sha256 |-> HashUpdate(st.sha256, r.data),
                  size |-> st.size + r.len,
                  events |-> read \o << <<"md5", cursor, r.len>>,
                                        <<"sha1", cursor, r.len>>,
                                        <<"sha256", cursor, r.len>> >>],
                 i + 1, plan)

\* calculate_hashes (lines 110-159) on an image of N bytes; the handle it
\* reads is its own (lines 120-122, 140), at offset 0
CalculateHashes(type, N, stored, plan) ==
    LET r == HashLoop(N, 0, NewHashes, 1, plan)
        md5Raises == stored.md5 = "raises"
    IN  [raised |-> r.raised,
         events |-> r.st.events,
         value |-> [computed_md5 |-> HexDigest(r.st.md5),
                    computed_sha1 |-> HexDigest(r.st.sha1),
                    computed_sha256 |-> HexDigest(r.st.sha256),
                    size |-> r.st.size,
                    stored_md5 |-> IF type = "ewf" /\ ~md5Raises
                                   THEN stored.md5 ELSE "None",
                    stored_sha1 |-> IF type = "ewf" /\ ~md5Raises
                                       /\ stored.sha1 # "raises"
                                    THEN stored.sha1 ELSE "None"]]

(***************************************************************************)
(* The threads that use one ImageHandler: the UI thread, the thread of     *)
(* the ThreadPoolExecutor of load_partitions_into_tree_async               *)
(* (mainwindow.py:566-581) and the MindMapWorker QThread                   *)
(* (mind_map.py:182-234).  A thread runs a task; while the task is in a    *)
(* filesystem-library call it enters EWFImgInfo.read (lines 28-54), which  *)
(* is two steps: the seek decision, then the handle read with the update   *)
(* of _last_offset.  Nothing in the code takes a lock.                     *)
(***************************************************************************)
Threads == {"ui", "worker", "mindmap"}

NoTask == [task |-> "none", in_read |-> FALSE, offset |-> 0, size |-> 0,
           reads |-> 0, data |-> <<>>]
Running(task) == [NoTask EXCEPT !.task = task]

\* the tasks that call into the filesystem library
ReadingTasks == {"_load_partitions_worker", "_on_partitions_loaded",
                 "on_item_clicked", "run"}

\* reads of one task
MaxReads == 1

\* offsets and sizes the filesystem library asks for
LibraryOffsets == {0, SECTOR_SIZE}
LibrarySizes == {SECTOR_SIZE}


(***************************************************************************)
(* The image sessions of the main window (mainwindow.py:505-564) and the   *)
(* construction of an ImageHandler (evidence_utils.py:61-108, 161-172).    *)
(* Paths are sequences of characters, "/" the separator.                   *)
(***************************************************************************)
\* images opened together
MaxImages == 2

\* acquisitions or conversions started from one dialog
MaxStarts == 2

\* str.upper(), to spell the file names of the dialog
StrUpper(str) ==
    [i \in 1..Len(str) |->
        IF \E k \in 1..Len(Lower) : Lower[k] = str[i]
        THEN Upper[CHOOSE k \in 1..Len(Lower) : Lower[k] = str[i]]
        ELSE str[i]]

\* the components of a path between its separators
RECURSIVE Components(_, _, _)
Components(p, cur, acc) ==
    IF p = <<>> THEN Append(acc, cur)
    ELSE IF Head(p) = "/" THEN Components(Tail(p), <<>>, Append(acc, cur))
    ELSE Components(Tail(p), Append(cur, Head(p)), acc)

\* the loop of posixpath.normpath over the components
RECURSIVE NormComponents(_, _, _)
NormComponents(comps, absolute, acc) ==
    IF comps = <<>> THEN acc
    ELSE LET comp == Head(comps) IN
         IF comp \in { <<>>, <<".">> }
         THEN NormComponents(Tail(comps), absolute, acc)
         ELSE IF comp # <<".", ".">>
                 \/ (~absolute /\ acc = <<>>)
                 \/ (acc # <<>> /\ acc[Len(acc)] = <<".", ".">>)
         THEN NormComponents(Tail(comps), absolute, Append(acc, comp))
         ELSE IF acc # <<>>
         THEN NormComponents(Tail(comps), absolute,
                             SubSeq(acc, 1, Len(acc) - 1))
         ELSE NormComponents(Tail(comps), absolute, acc)

RECURSIVE JoinComponents(_)
JoinComponents(comps) ==
    IF comps = <<>> THEN <<>>
    ELSE IF Len(comps) = 1 THEN Head(comps)
    ELSE Head(comps) \o <<"/">> \o JoinComponents(Tail(comps))

\* os.path.normpath(image_path) (mainwindow.py:508), POSIX flavour
Normpath(p) ==
    IF p = <<>> THEN <<".">>
    ELSE LET slashes == IF Head(p) # "/" THEN <<>>
                        ELSE IF Len(p) >= 2 /\ p[2] = "/"
                                /\ ~(Len(p) >= 3 /\ p[3] = "/")
                        THEN <<"/", "/">>
                        ELSE <<"/">>
             joined == JoinComponents(
                           NormComponents(Components(p, <<>>, <<>>),
                                          slashes # <<>>, <<>>))
         IN  IF slashes \o joined = <<>> THEN <<".">> ELSE slashes \o joined

\* os.path.splitext(image_path)[1] (line 95): the extension of the last
\* component
PathSplitext(p) ==
    LET comps == Components(p, <<>>, <<>>) IN Splitext(comps[Len(comps)])

\* the lists of get_image_type (lines 98-101)
ewf == { <<".", "e", "0", "1">>, <<".", "s", "0", "1">>,
         <<".", "l", "0", "1">>, <<".", "e", "x", "0", "1">> }
raw == { <<".", "r", "a", "w">>, <<".", "i", "m", "g">>, <<".", "d", "d">>,
         <<".", "i", "s", "o">>, <<".", "a", "d", "1">>,
         <<".", "0", "0", "1">>, <<".", "d", "m", "g">>,
         <<".", "s", "p", "a", "r", "s", "e">>,
         <<".", "s", "p", "a", "r", "s", "e", "i", "m", "a", "g", "e">> }

\* a plausible slip: the extension is compared as it is spelled
GetImageType_CaseSensitive(image_path) ==
    LET extension == PathSplitext(image_path) IN
    IF extension \in ewf THEN [raised |-> FALSE, value |-> "ewf"]
    ELSE IF extension \in raw THEN [raised |-> FALSE, value |-> "raw"]
    ELSE [raised |-> TRUE, value |-> "ValueError"]

\* get_image_type (lines 93-108)
GetImageType(image_path) ==
    LET extension == StrLower(PathSplitext(image_path)) IN
    IF extension \in ewf THEN [raised |-> FALSE, value |-> "ewf"]
    ELSE IF extension \in raw THEN [raised |-> FALSE, value |-> "raw"]
    ELSE [raised |-> TRUE, value |-> "ValueError"]

\* ImageHandler(image_path): __init__ and _load_basic_image_info (lines
\* 61-74, 161-172).  opens: the library opens the file; opened: the
\* library calls made, in order; img_info: what self.img_info is.
NewImageHandler(image_path, opens) ==
    LET image_type_ == GetImageType(image_path) IN
    IF image_type_.raised
    THEN [raised |-> TRUE, error |-> "ValueError", type |-> "ValueError",
          opened |-> <<>>, img_info |-> "None"]
    ELSE IF image_type_.value = "ewf"
    THEN IF opens
         THEN [raised |-> FALSE, error |-> "None", type |-> "ewf",
               opened |-> <<"pyewf.glob", "pyewf.handle.open">>,
               img_info |-> "EWFImgInfo"]
         ELSE [raised |-> TRUE, error |-> "IOError", type |-> "ewf",
               opened |-> <<"pyewf.glob", "pyewf.handle.open">>,
               img_info |-> "None"]
    ELSE IF opens
         THEN [raised |-> FALSE, error |-> "None", type |-> "raw",
               opened |-> <<"pytsk3.Img_Info">>, img_info |-> "Img_Info"]
         ELSE [raised |-> TRUE, error |-> "IOError", type |-> "raw",
               opened |-> <<"pytsk3.Img_Info">>, img_info |-> "None"]

\* file names of every listed extension, as listed and in upper case, and
\* names with other extensions or none
ImagePaths ==
    { <<"a">> \o x : x \in ewf \cup raw }
        \cup { <<"a">> \o StrUpper(x) : x \in ewf \cup raw }
        \cup { <<"a">>, <<".", "e", "0", "1">>, <<"a", ".">>,
                 <<"a", ".", "z", "i", "p">>, <<"a", ".", "e", "0", "2">>,
                 <<"a", ".", "e", "0", "1", "1">>,
                 <<"a", ".", "e", "0", "1", ".", "t", "x", "t">>,
                 <<"a", ".", "r", "a", "w", ".", "E", "0", "1">>,
                 <<"a", ".", "D", "d">>,
                 <<"/", "e", "v", ".", "e", "0", "1", "/", "a">>,
                 <<"/", "e", "v", "/", "a", ".", "I", "M", "G">>,
                 <<"a", ".", "a", "f", "f">>,
                 <<"a", ".", ".", "s", "0", "1">> }

\* the entry "Remove All" of the removal dialog (line 534): no path
RemoveAll == <<"Remove All">>

\* an ImageHandler as the window holds it.  closed: its container handle
\* was closed; fs_info_cache: it holds mounted filesystem handles; worker:
\* the background load submitted with it; partitions_from: the session
\* whose handler filled the tree below its root item; removed: its
\* evidence was removed
NewSession(image_path, img_info) ==
    [image_path |-> image_path, img_info |-> img_info, closed |-> FALSE,
     fs_info_cache |-> FALSE, worker |-> "submitted", partitions_from |-> 0,
     removed |-> FALSE]

\* the files offered when sessions are followed
SessionPaths == { <<"a", ".", "E", "0", "1">>, <<"b", ".", "d", "d">>, <<"c", ".", "z", "i", "p">> }

\* list.remove(x) on a list of tree items: the first item with this text
RemoveFirst(items, text) ==
    LET hits == {k \in DOMAIN items : sessions[items[k]].image_path = text}
    IN  IF hits = {} THEN items
        ELSE LET k == CHOOSE k \in hits : \A j \in hits : k <= j IN
             SubSeq(items, 1, k - 1) \o SubSeq(items, k + 1, Len(items))

\* a call into the handler the window holds, which may mount a filesystem
ReadThrough(mounted) ==
    [sessions EXCEPT ![image_handler].fs_info_cache = @ \/ mounted]

(***************************************************************************)
(* The chunked read loops, one iteration at a time: EWFImgInfo.read for    *)
(* size > READ_BUFFER_SIZE (lines 40-50), get_registry_hive (lines         *)
(* 351-358) and get_file_content (lines 579-586) for a file above          *)
(* LARGE_FILE_THRESHOLD.                                                   *)
(***************************************************************************)
LoopKinds == {"EWFImgInfo.read", "get_registry_hive", "get_file_content"}

\* the chunk of a loop: the constant in its min()
ChunkOf(kind) ==
    IF kind = "EWFImgInfo.read" THEN READ_BUFFER_SIZE ELSE CHUNK_SIZE

\* the sizes that take the loop
LoopSizes(kind) ==
    IF kind = "EWFImgInfo.read"
    THEN {s \in ReadSizes : s > READ_BUFFER_SIZE}
    ELSE {s \in FileSizes : s > LARGE_FILE_THRESHOLD}

\* how many bytes of the size that was asked for can be read: all, a
\* part, none (a read past the end of the media, a truncated file)
ReadableSizes(size) == {0, (size + 1) \div 2, size}

\* the number of bytes a sub-read of n bytes at current_offset gives: what
\* is readable there, or a part of it
SubReadOutcomes(l, n) ==
    LET avail == Max(0, Min(n, l.readable - l.current_offset)) IN
    {avail, (avail + 1) \div 2}

NoLoop ==
    [kind |-> "none", size |-> 0, readable |-> 0, remaining |-> 0,
     current_offset |-> 0, data |-> <<>>, chunk_size |-> 0, chunk |-> 0,
     status |-> "none"]

\* the statements before the while (lines 37-39, 348-350, 576-578)
EnterLoop(kind, size, readable) ==
    [kind |-> kind, size |-> size, readable |-> readable,
     remaining |-> size, current_offset |-> 0, data |-> <<>>,
     chunk_size |-> 0, chunk |-> 0, status |-> "running"]

\* a plausible slip: an empty chunk does not leave the loop
LoopIteration_NoBreak(l, outcome) ==
    IF l.remaining > 0
    THEN LET chunk_size == Min(l.remaining, ChunkOf(l.kind)) IN
         [l EXCEPT !.chunk_size = chunk_size, !.chunk = outcome,
                   !.data = Extend(@, Bytes(l.current_offset,
                                            l.current_offset + outcome)),
                   !.remaining = @ - outcome,
                   !.current_offset = @ + outcome]
    ELSE [l EXCEPT !.status = "returned"]

\* the test of the while and one run of its body (lines 40-48, 351-358,
\* 579-586); outcome: the number of bytes the sub-read of this iteration
\* gives
LoopIteration(l, outcome) ==
    IF l.remaining > 0
    THEN LET chunk_size == Min(l.remaining, ChunkOf(l.kind)) IN
         IF outcome = 0
         THEN [l EXCEPT !.chunk_size = chunk_size, !.chunk = 0,
                        !.status = "returned"]
         ELSE [l EXCEPT !.chunk_size = chunk_size, !.chunk = outcome,
                        !.data = Extend(@, Bytes(l.current_offset,
                                                 l.current_offset + outcome)),
                        !.remaining = @ - outcome,
                        !.current_offset = @ + outcome]
    ELSE [l EXCEPT !.status = "returned"]

\* the suffixes of _is_zip_file (line 1136) and the bytes its signature
\* test looks at (line 1142)
ZipSuffixes == { <<".", "z", "i", "p">>, <<".", "j", "a", "r">>, <<".", "w", "a", "r">>,
                 <<".", "e", "a", "r">>, <<".", "a", "p", "k">> }
SignatureBytes == 4

\* str.endswith(suffix)
EndsWith(str, suffix) ==
    /\ Len(str) >= Len(suffix)
    /\ SubSeq(str, Len(str) - Len(suffix) + 1, Len(str)) = suffix

\* the entry names _is_zip_file is asked about
EntryNames == { <<"a", ".", "z", "i", "p">>, <<"B", ".", "A", "P", "K">>,
                <<"a", ".", "t", "x", "t">>, <<"z", "i", "p">>,
                <<"a", ".", "z", "i", "p", ".", "b", "a", "k">> }

\* _is_zip_file (lines 1133-1151); reqs: the read_random calls made on the
\* file
IsZipFile(h, c, f, a, entry_name, inode_number, start_offset, plan) ==
    IF \E suffix \in ZipSuffixes : EndsWith(StrLower(entry_name), suffix)
    THEN [h |-> h, raised |-> FALSE, value |-> TRUE, reqs |-> <<>>]
    ELSE LET g == GetFileContent(h, c, f, inode_number, start_offset, plan)
         IN  [h |-> g.h, raised |-> FALSE,
              value |-> (~g.isNone /\ ByteLen(g.content) >= SignatureBytes
                             /\ StartsWithPK(a, g.content)),
              reqs |-> g.reqs]

(***************************************************************************)
(* DeviceAcquisitionThread and ImageToE01ConversionThread, one step of     *)
(* run() at a time (file_acquisition.py:39-57, 988-1000), with the dialog  *)
(* that starts and cancels them.                                           *)
(***************************************************************************)
AcquisitionThreads == {"DeviceAcquisitionThread", "ImageToE01ConversionThread"}

\* format_type as start_acquisition passes it (line 909)
FormatTypes == {"raw", "ewf"}

\* how the acquisition step ends when it is not cancelled: a check before
\* the process starts raises, the process ends with a return code
StepOutcomes == {"precheck raises", "returncode 0", "returncode 1"}

\* lines the process writes, and chunks of the image to hash
MaxLines == 2
MaxHashChunks == 2

NoThread ==
    [class |-> "none", format_type |-> "raw", calculate_hash |-> FALSE,
     outcome |-> "returncode 0", has_output |-> FALSE,
     cancelled |-> FALSE, pc |-> "none", lines |-> 0, chunks |-> 0,
     emitted |-> 0]

\* __init__ (lines 26-33, 976-982) and QThread.start
NewThread(class, format_type, calculate_hash, outcome, has_output, lines, chunks) ==
    [class |-> class, format_type |-> format_type,
     calculate_hash |-> calculate_hash, outcome |-> outcome,
     has_output |-> has_output, cancelled |-> FALSE, pc |-> "run",
     lines |-> lines, chunks |-> chunks, emitted |-> 0]

\* QThread.isRunning()
IsRunning(t) == t.pc \notin {"none", "returned"}

\* self.finished.emit(success, message), then the end of run()
EmitFinished(t) == [t EXCEPT !.emitted = @ + 1, !.pc = "returned"]

\* one step of run() (lines 39-57, 988-1000):
\*   "run"      the format test of lines 42-48 and the checks of the
\*              acquisition step that raise before the process starts
\*   "acquire"  one line of the process output (lines 136-141, 337-345,
\*              1055-1063), then process.wait() and the return code
\*   "acquired" the test of line 51 / 994
\*   "hashing"  one round of the loop of _calculate_hashes (lines 476-482,
\*              1143-1149)
\*   "hashed"   the test of line 54 / 997
RunStep(t) ==
    CASE t.pc = "run" ->
           IF t.class = "DeviceAcquisitionThread"
                  /\ t.format_type \notin {"raw", "ewf"}
           THEN EmitFinished(t)
           ELSE IF t.outcome = "precheck raises"
           THEN EmitFinished(t)
           ELSE [t EXCEPT !.pc = "acquire"]
      [] t.pc = "acquire" ->
           IF t.lines > 0
           THEN IF t.cancelled
                THEN EmitFinished(t)
                ELSE [t EXCEPT !.lines = @ - 1]
           ELSE IF t.outcome # "returncode 0"
           THEN EmitFinished(t)
           ELSE [t EXCEPT !.pc = "acquired"]
      [] t.pc = "acquired" ->
           IF t.calculate_hash /\ ~t.cancelled
           THEN IF t.has_output THEN [t EXCEPT !.pc = "hashing"]
                                ELSE [t EXCEPT !.pc = "hashed"]
           ELSE [t EXCEPT !.pc = "hashed"]
      [] t.pc = "hashing" ->
           IF t.cancelled THEN [t EXCEPT !.pc = "hashed"]
           ELSE IF t.chunks > 0 THEN [t EXCEPT !.chunks = @ - 1]
           ELSE [t EXCEPT !.pc = "hashed"]
      [] t.pc = "hashed" ->
           IF ~t.cancelled THEN EmitFinished(t)
                           ELSE [t EXCEPT !.pc = "returned"]
      [] OTHER -> t
(***************************************************************************)
(* Bookkeeping of what the calls returned (not program state).             *)
(***************************************************************************)
NoDiscovery ==
    [n |-> 0, wipedSet |-> FALSE, wiped |-> FALSE,
     partsSet |-> FALSE, raised |-> FALSE, parts |-> <<>>]

\* a discovery call (load_image / get_partitions) returned with handler h1;
\* listed: it was get_partitions, with outcome r
NoteDiscovery(d, h1, listed, r) ==
    LET d1 == IF d.wipedSet THEN [d EXCEPT !.n = d.n + 1]
              ELSE [d EXCEPT !.n = d.n + 1, !.wipedSet = TRUE,
                             !.wiped = h1.wiped]
    IN  IF listed /\ ~d1.partsSet
        THEN [d1 EXCEPT !.partsSet = TRUE, !.raised = r.raised,
                        !.parts = r.value]
        ELSE d1

NoteFsCall(off, value) ==
    /\ fsCalls' = [fsCalls EXCEPT ![off] = @ + 1]
    /\ firstFs' = IF fsCalls[off] = 0
                  THEN [firstFs EXCEPT ![off] = value]
                  ELSE firstFs

imageVars == <<container, directory, subdirectory, file, archive, media_size,
               image_type, stored_hashes, fs_type>>
envVars == <<imageVars, temp_files>>
ewfVars == <<ewf_cursor, last_offset>>
threadVars == <<threads, future, callback>>
loopVars == <<loop>>
dialogVars == <<acquisition_thread, start_btn, cancel_btn, signals, starts>>
windowVars == <<selectable, image_handler, sessions, evidence_files,
                tree_viewer, current_image_path>>
uiVars == <<threadVars, dialogVars, loopVars, windowVars>>
handlerVars == <<volume_info, volume_info_loaded, fs_info, is_wiped_image,
                 fs_info_cache, directory_cache, file_metadata_cache,
                 handles, parseCount, probeCount, mountCount>>

Return(op, arg, r) ==
    /\ calls' = calls + 1
    /\ ret' = [op |-> op, arg |-> arg, raised |-> r.raised, value |-> r.value]

(***************************************************************************)
(* The API calls on the handler, each one call from the UI layer.          *)
(***************************************************************************)
CallGetPartitions ==
    /\ calls < MaxCalls
    /\ LET r == GetPartitions(Self, container) IN
        /\ Store(r.h)
        /\ firstDiscovery' = NoteDiscovery(firstDiscovery, r.h, TRUE, r)
        /\ Return("get_partitions", 0, r)
    /\ UNCHANGED <<envVars, uiVars, ewfVars, fsCalls, firstFs>>

CallLoadImage ==
    /\ calls < MaxCalls
    /\ LET r == LoadImage(Self, container) IN
        /\ Store(r.h)
        /\ firstDiscovery' = NoteDiscovery(firstDiscovery, r.h, FALSE, r)
        /\ Return("load_image", 0, r)
    /\ UNCHANGED <<envVars, uiVars, ewfVars, fsCalls, firstFs>>

CallGetFsInfo ==
    /\ calls < MaxCalls
    /\ \E off \in Offsets :
        LET r == GetFsInfo(Self, container, off) IN
        /\ Store(r.h)
        /\ NoteFsCall(off, r.value)
        /\ Return("get_fs_info", off, r)
    /\ UNCHANGED <<envVars, uiVars, ewfVars, firstDiscovery>>

CallLoadPartitionsWorker ==
    /\ calls < MaxCalls
    /\ LET p == GetPartitions(Self, container)
           r == LoadPartitionsWorker(Self, container) IN
        /\ Store(r.h)
        /\ firstDiscovery' = NoteDiscovery(firstDiscovery, p.h, TRUE, p)
        /\ IF ~p.raised /\ p.value = <<>>
           THEN NoteFsCall(0, GetFsInfo(p.h, container, 0).value)
           ELSE UNCHANGED <<fsCalls, firstFs>>
        /\ Return("load_partitions_worker", 0, r)
    /\ UNCHANGED <<envVars, uiVars, ewfVars>>

CallGetDirectoryContents ==
    /\ calls < MaxCalls
    /\ \E off \in {0, MaxOffset}, inode \in DirInodes :
        LET r == GetDirectoryContents(Self, container, directory, off, inode)
        IN  /\ Store(r.h)
            /\ IF r.mounted
               THEN NoteFsCall(off, GetFsInfo(Self, container, off).value)
               ELSE UNCHANGED <<fsCalls, firstFs>>
            /\ calls' = calls + 1
            /\ ret' = [op |-> "get_directory_contents",
                       arg |-> <<off, inode>>, raised |-> r.raised,
                       value |-> r.value, hit |-> ~r.mounted,
                       opened |-> r.mounted /\ GetFsInfo(Self, container,
                                                         off).value # NoHandle]
    /\ UNCHANGED <<envVars, uiVars, ewfVars, firstDiscovery>>

CallClearCache ==
    /\ calls < MaxCalls
    /\ Store(ClearCache(Self))
    /\ calls' = calls + 1
    /\ ret' = [op |-> "clear_cache", arg |-> 0, raised |-> FALSE,
               value |-> "None",
               dropped |-> Cardinality(DOMAIN directory_cache)]
    /\ UNCHANGED <<envVars, uiVars, ewfVars, fsCalls, firstFs, firstDiscovery>>

\* ImageHandler.read on a segmented image: img_info.read(offset, size)
CallRead ==
    /\ calls < MaxCalls
    /\ \E offset \in ReadOffsets(media_size), size \in ReadSizes,
          failAt \in 0..2 :
        LET r == EwfRead(EwfState, offset, size, failAt) IN
        /\ ewf_cursor' = r.e.cursor
        /\ last_offset' = r.e.last_offset
        /\ calls' = calls + 1
        /\ ret' = [op |-> "read", arg |-> <<offset, size>>,
                   failAt |-> failAt, raised |-> r.raised,
                   value |-> r.value, reads |-> r.reads,
                   seeking |->
                       LET k == EwfReadAlwaysSeek(EwfState, offset, size,
                                                  failAt)
                       IN  [raised |-> k.raised, value |-> k.value]]
    /\ UNCHANGED <<envVars, uiVars, handlerVars, fsCalls, firstFs, firstDiscovery>>

CallReadUnallocatedSpace ==
    /\ calls < MaxCalls
    /\ \E start_offset \in StartSectors, end_offset \in EndSectors,
          failAt \in 0..2 :
        LET r == ReadUnallocatedSpace(EwfState, start_offset, end_offset,
                                      failAt) IN
        /\ ewf_cursor' = r.e.cursor
        /\ last_offset' = r.e.last_offset
        /\ calls' = calls + 1
        /\ ret' = [op |-> "read_unallocated_space",
                   arg |-> <<start_offset, end_offset>>,
                   raised |-> r.raised, isNone |-> r.isNone,
                   failed |-> r.failed, value |-> r.value, req |-> r.req]
    /\ UNCHANGED <<envVars, uiVars, handlerVars, fsCalls, firstFs, firstDiscovery>>

CallGetFileContent ==
    /\ calls < MaxContentCalls
    /\ \E offset \in {0, MaxOffset}, inode_number \in {FileInode, MissingInode},
          plan \in Plans :
        LET r == GetFileContent(Self, container, file, inode_number, offset,
                                plan) IN
        /\ Store(r.h)
        /\ NoteFsCall(offset, GetFsInfo(Self, container, offset).value)
        /\ calls' = calls + 1
        /\ ret' = [op |-> "get_file_content",
                   arg |-> <<inode_number, offset>>, plan |-> plan,
                   raised |-> r.raised, isNone |-> r.isNone,
                   readRaised |-> r.readRaised, content |-> r.content,
                   metadata |-> r.metadata, reqs |-> r.reqs]
    /\ UNCHANGED <<envVars, uiVars, ewfVars, firstDiscovery>>

\* get_registry_hive as get_windows_version calls it (lines 369-377), on
\* the handle of get_fs_info(start_offset)
CallGetRegistryHive ==
    /\ calls < MaxContentCalls
    /\ \E start_offset \in {0, MaxOffset}, present \in BOOLEAN, plan \in Plans :
        LET g == GetFsInfo(Self, container, start_offset)
            r == GetRegistryHive(g.value, file, present, plan) IN
        /\ Store(g.h)
        /\ NoteFsCall(start_offset, g.value)
        /\ calls' = calls + 1
        /\ ret' = [op |-> "get_registry_hive",
                   arg |-> <<start_offset, present>>, plan |-> plan,
                   raised |-> r.raised, isNone |-> r.isNone,
                   readRaised |-> r.readRaised, content |-> r.content,
                   reqs |-> r.reqs]
    /\ UNCHANGED <<envVars, uiVars, ewfVars, firstDiscovery>>

CallGetWindowsVersion ==
    /\ calls < MaxContentCalls
    /\ \E start_offset \in {0, MaxOffset}, present \in BOOLEAN,
          plan \in Plans, reg \in RegPlans :
        LET g == GetFsInfo(Self, container, start_offset)
            r == GetWindowsVersion(Self, container, file, fs_type,
                                   start_offset, present, plan, reg,
                                   temp_files) IN
        /\ Store(r.h)
        /\ temp_files' = r.temps
        \* get_fs_type asks get_fs_info again (line 239)
        /\ fsCalls' = [fsCalls EXCEPT ![start_offset] =
                          @ + IF g.value = NoHandle THEN 1 ELSE 2]
        /\ firstFs' = IF fsCalls[start_offset] = 0
                      THEN [firstFs EXCEPT ![start_offset] = g.value]
                      ELSE firstFs
        /\ calls' = calls + 1
        /\ ret' = [op |-> "get_windows_version",
                   arg |-> <<start_offset, present>>, plan |-> plan,
                   reg |-> reg, raised |-> r.raised, value |-> r.value,
                   temp |-> r.temp]
    /\ UNCHANGED <<imageVars, uiVars, ewfVars, firstDiscovery>>

\* the directory on the media is replaced by another one between two calls
ChangeDirectory ==
    /\ directory' \in CacheDirectories \ {directory}
    /\ UNCHANGED <<container, subdirectory, file, archive, media_size,
                   image_type, stored_hashes, fs_type,
                   temp_files, uiVars, ewfVars,
                   handlerVars, fsCalls, firstFs, firstDiscovery, calls, ret>>

CallListFiles ==
    /\ calls < MaxContentCalls
    /\ \E extensions \in ExtensionArgs :
        LET r == ListFiles(container, directory, subdirectory, extensions) IN
        /\ calls' = calls + 1
        /\ ret' = [op |-> "list_files", arg |-> extensions,
                   raised |-> r.raised, value |-> r.value]
    /\ UNCHANGED <<envVars, uiVars, ewfVars, handlerVars, fsCalls, firstFs,
                   firstDiscovery>>

CallSearchFiles ==
    /\ calls < MaxContentCalls
    /\ \E search_query \in QueryArgs :
        LET r == SearchFiles(container, directory, subdirectory,
                             search_query) IN
        /\ calls' = calls + 1
        /\ ret' = [op |-> "search_files", arg |-> search_query,
                   raised |-> r.raised, value |-> r.value]
    /\ UNCHANGED <<envVars, uiVars, ewfVars, handlerVars, fsCalls, firstFs,
                   firstDiscovery>>

CallGetZipContents ==
    /\ calls < MaxContentCalls
    /\ \E start_offset \in {0, MaxOffset},
          inode_number \in {FileInode, MissingInode}, plan \in Plans :
        LET r == GetZipContents(Self, container, file, archive, inode_number,
                                start_offset, plan) IN
        /\ Store(r.h)
        /\ NoteFsCall(start_offset,
                      GetFsInfo(Self, container, start_offset).value)
        /\ calls' = calls + 1
        /\ ret' = [op |-> "_get_zip_contents",
                   arg |-> <<inode_number, start_offset>>, plan |-> plan,
                   raised |-> r.raised, isNone |-> r.isNone,
                   value |-> r.value, content |-> r.content]
    /\ UNCHANGED <<envVars, uiVars, ewfVars, firstDiscovery>>

CallExtractZipEntry ==
    /\ calls < MaxContentCalls
    /\ \E zip_parent_offset \in {0, MaxOffset},
          zip_parent_inode \in {FileInode, MissingInode},
          zip_path \in ZipPaths, plan \in Plans :
        LET r == ExtractZipEntry(Self, container, file, archive,
                                 zip_parent_inode, zip_parent_offset,
                                 zip_path, plan) IN
        /\ Store(r.h)
        /\ NoteFsCall(zip_parent_offset,
                      GetFsInfo(Self, container, zip_parent_offset).value)
        /\ calls' = calls + 1
        /\ ret' = [op |-> "_extract_zip_entry",
                   arg |-> <<zip_parent_inode, zip_parent_offset, zip_path>>,
                   plan |-> plan, raised |-> r.raised, isNone |-> r.isNone,
                   value |-> r.value, content |-> r.content]
    /\ UNCHANGED <<envVars, uiVars, ewfVars, firstDiscovery>>

CallCalculateHashes ==
    /\ calls < MaxCalls
    /\ \E plan \in HashPlans :
        LET r == CalculateHashes(image_type, media_size, stored_hashes, plan)
        IN  /\ calls' = calls + 1
            /\ ret' = [op |-> "calculate_hashes", arg |-> 0, plan |-> plan,
                       raised |-> r.raised, value |-> r.value,
                       events |-> r.events]
    /\ UNCHANGED <<envVars, uiVars, ewfVars, handlerVars, fsCalls, firstFs,
                   firstDiscovery>>

\* load_image_evidence (mainwindow.py:507-525) up to executor.submit
\* (line 580): the worker thread starts _load_partitions_worker
LoadImageEvidence ==
    /\ future = "none"
    /\ threads["ui"].task = "none"
    /\ threads' = [threads EXCEPT
                      !["ui"] = Running("add_done_callback"),
                      !["worker"] = Running("_load_partitions_worker")]
    /\ future' = "pending"
    /\ UNCHANGED <<envVars, dialogVars, loopVars, windowVars, ewfVars, handlerVars, fsCalls, firstFs,
                   firstDiscovery, calls, ret, callback>>

\* future.add_done_callback (line 581): a callback added to a finished
\* future runs at once in the calling thread
AddDoneCallback ==
    /\ threads["ui"].task = "add_done_callback"
    /\ IF future = "done"
       THEN /\ threads' = [threads EXCEPT
                              !["ui"] = Running("_on_partitions_loaded")]
            /\ callback' = "ran"
       ELSE /\ threads' = [threads EXCEPT !["ui"] = NoTask]
            /\ callback' = "registered"
    /\ UNCHANGED <<envVars, dialogVars, loopVars, windowVars, ewfVars, handlerVars, fsCalls, firstFs,
                   firstDiscovery, calls, ret, future>>

\* _load_partitions_worker returns (lines 583-626): the future is done and
\* a registered callback runs in the worker thread
WorkerReturns ==
    /\ threads["worker"].task = "_load_partitions_worker"
    /\ ~threads["worker"].in_read
    /\ future' = "done"
    /\ IF callback = "registered"
       THEN /\ threads' = [threads EXCEPT
                              !["worker"] = Running("_on_partitions_loaded")]
            /\ callback' = "ran"
       ELSE /\ threads' = [threads EXCEPT !["worker"] = NoTask]
            /\ UNCHANGED callback
    /\ UNCHANGED <<envVars, dialogVars, loopVars, windowVars, ewfVars, handlerVars, fsCalls, firstFs,
                   firstDiscovery, calls, ret>>

\* on_item_clicked / on_item_expanded (lines 748-848) on an item of the
\* tree, which has its root item from line 574 on
ItemClicked ==
    /\ calls < MaxContentCalls
    /\ future # "none"
    /\ threads["ui"].task = "none"
    /\ threads' = [threads EXCEPT !["ui"] = Running("on_item_clicked")]
    /\ calls' = calls + 1
    /\ UNCHANGED <<envVars, dialogVars, loopVars, windowVars, ewfVars, handlerVars, fsCalls, firstFs,
                   firstDiscovery, ret, future, callback>>

\* generate_mind_map (mind_map.py:429-480): worker_thread.start()
GenerateMindMap ==
    /\ calls < MaxContentCalls
    /\ future # "none"
    /\ threads["ui"].task = "none"
    /\ threads["mindmap"].task = "none"
    /\ threads' = [threads EXCEPT !["mindmap"] = Running("run")]
    /\ calls' = calls + 1
    /\ UNCHANGED <<envVars, dialogVars, loopVars, windowVars, ewfVars, handlerVars, fsCalls, firstFs,
                   firstDiscovery, ret, future, callback>>

\* a handler, the callback or MindMapWorker.run returns
TaskReturns ==
    /\ \E t \in Threads :
        /\ threads[t].task \in {"_on_partitions_loaded", "on_item_clicked",
                                "run"}
        /\ ~threads[t].in_read
        /\ threads' = [threads EXCEPT ![t] = NoTask]
    /\ UNCHANGED <<envVars, dialogVars, loopVars, windowVars, ewfVars, handlerVars, fsCalls, firstFs,
                   firstDiscovery, calls, ret, future, callback>>

\* EWFImgInfo.read, lines 29-31: the thread enters read(offset, size) and
\* seeks unless _last_offset is the offset
BeginRead ==
    /\ \E t \in Threads, offset \in LibraryOffsets, size \in LibrarySizes :
        /\ threads[t].task \in ReadingTasks
        /\ ~threads[t].in_read
        /\ threads[t].reads < MaxReads
        /\ threads' = [threads EXCEPT ![t].in_read = TRUE,
                                      ![t].offset = offset,
                                      ![t].size = size,
                                      ![t].reads = @ + 1]
        /\ ewf_cursor' = IF last_offset # offset
                         THEN HandleSeek(EwfState, offset).cursor
                         ELSE ewf_cursor
    /\ UNCHANGED <<envVars, dialogVars, loopVars, windowVars, last_offset, handlerVars, fsCalls, firstFs,
                   firstDiscovery, calls, ret, future, callback>>

\* EWFImgInfo.read, lines 34-36: the handle read from wherever the cursor
\* is now, the update of _last_offset, and the return
EndRead ==
    /\ \E t \in Threads :
        /\ threads[t].in_read
        /\ LET r == HandleRead(EwfState, threads[t].size, FALSE) IN
            /\ ewf_cursor' = r.e.cursor
            /\ last_offset' = threads[t].offset + r.len
            /\ threads' = [threads EXCEPT ![t].in_read = FALSE,
                                          ![t].data = r.data]
    /\ UNCHANGED <<envVars, dialogVars, loopVars, windowVars, handlerVars, fsCalls, firstFs, firstDiscovery,
                   calls, ret, future, callback>>


\* load_image_evidence (lines 505-525); opens: the library opens the file
WindowLoadImageEvidence ==
    /\ Len(sessions) < MaxImages
    /\ \E picked \in selectable, opens \in BOOLEAN :
        LET image_path == Normpath(picked)
            r == NewImageHandler(image_path, opens)
            id == Len(sessions) + 1
        IN  /\ ret' = [op |-> "load_image_evidence", arg |-> image_path,
                       raised |-> r.raised, value |-> r.error,
                       type |-> r.type, opened |-> r.opened,
                       img_info |-> r.img_info]
            /\ IF r.raised
               THEN UNCHANGED <<image_handler, sessions, evidence_files,
                                tree_viewer, current_image_path>>
               ELSE /\ image_handler' = id
                    /\ sessions' = Append(sessions,
                                          NewSession(image_path, r.img_info))
                    /\ evidence_files' = Append(evidence_files, image_path)
                    /\ current_image_path' = image_path
                    /\ tree_viewer' = Append(tree_viewer, id)
    /\ UNCHANGED <<envVars, selectable, threadVars, dialogVars, loopVars, ewfVars, handlerVars,
                   fsCalls, firstFs, firstDiscovery, calls>>

\* _load_partitions_worker and its done-callback _on_partitions_loaded
\* (lines 583-690) for the root item of session i: both read
\* self.image_handler when they run
WindowLoadPartitionsWorker ==
    /\ \E i \in DOMAIN sessions, mounted \in BOOLEAN :
        /\ sessions[i].worker = "submitted"
        /\ sessions' = [ReadThrough(mounted) EXCEPT
                           ![i].worker = "done",
                           ![i].partitions_from = image_handler]
        /\ ret' = [op |-> "_load_partitions_worker", arg |-> i,
                   raised |-> FALSE, value |-> "None", item |-> i,
                   through |-> image_handler,
                   through_removed |-> sessions[image_handler].removed]
    /\ UNCHANGED <<envVars, selectable, image_handler, evidence_files,
                   tree_viewer, current_image_path, threadVars, dialogVars, loopVars, ewfVars,
                   handlerVars, fsCalls, firstFs, firstDiscovery, calls>>

\* on_item_expanded (lines 748-766) on the root item of session i or on a
\* partition node below it that has no children yet: get_fs_type (line
\* 761), which is called before populate_contents looks at
\* current_image_path
WindowItemExpanded ==
    /\ \E k \in DOMAIN tree_viewer, mounted \in BOOLEAN :
        LET i == tree_viewer[k] IN
        /\ sessions' = ReadThrough(mounted)
        /\ ret' = [op |-> "on_item_expanded", arg |-> i,
                   raised |-> FALSE, value |-> "None", item |-> i,
                   through |-> image_handler,
                   through_removed |-> sessions[image_handler].removed]
    /\ UNCHANGED <<envVars, selectable, image_handler, evidence_files,
                   tree_viewer, current_image_path, threadVars, dialogVars, loopVars, ewfVars,
                   handlerVars, fsCalls, firstFs, firstDiscovery, calls>>

\* on_item_clicked (lines 772-845) on a node below the root item of
\* session i, or on the root item
WindowItemClicked ==
    /\ \E k \in DOMAIN tree_viewer, mounted \in BOOLEAN :
        LET i == tree_viewer[k] IN
        /\ sessions' = ReadThrough(mounted)
        /\ ret' = [op |-> "on_item_clicked", arg |-> i,
                   raised |-> FALSE, value |-> "None", item |-> i,
                   through |-> image_handler,
                   through_removed |-> sessions[image_handler].removed]
    /\ UNCHANGED <<envVars, selectable, image_handler, evidence_files,
                   tree_viewer, current_image_path, threadVars, dialogVars, loopVars, ewfVars,
                   handlerVars, fsCalls, firstFs, firstDiscovery, calls>>

\* export of the selected node (lines 1014-1075): export_file /
\* export_directory
WindowExport ==
    /\ \E k \in DOMAIN tree_viewer, mounted \in BOOLEAN :
        LET i == tree_viewer[k] IN
        /\ sessions' = ReadThrough(mounted)
        /\ ret' = [op |-> "export_file", arg |-> i,
                   raised |-> FALSE, value |-> "None", item |-> i,
                   through |-> image_handler,
                   through_removed |-> sessions[image_handler].removed]
    /\ UNCHANGED <<envVars, selectable, image_handler, evidence_files,
                   tree_viewer, current_image_path, threadVars, dialogVars, loopVars, ewfVars,
                   handlerVars, fsCalls, firstFs, firstDiscovery, calls>>

\* remove_image_evidence (lines 527-556) with the dialog accepted, and
\* clear_ui (lines 442-451), which it calls on both branches
WindowRemoveImageEvidence ==
    /\ evidence_files # <<>>
    /\ \E selected_option \in
              {evidence_files[k] : k \in DOMAIN evidence_files}
                  \cup {RemoveAll} :
        LET left == IF selected_option = RemoveAll THEN <<>>
                    ELSE RemoveFirst(tree_viewer, selected_option)
            taken == {tree_viewer[k] : k \in DOMAIN tree_viewer}
                         \ {left[k] : k \in DOMAIN left}
        IN  /\ tree_viewer' = left
            /\ sessions' = [i \in DOMAIN sessions |->
                               IF i \in taken
                               THEN [sessions[i] EXCEPT !.removed = TRUE]
                               ELSE sessions[i]]
            /\ ret' = [op |-> "remove_image_evidence",
                       arg |-> selected_option, raised |-> FALSE,
                       value |-> "None", taken |-> taken]
    /\ evidence_files' = <<>>
    /\ current_image_path' = <<>>
    /\ UNCHANGED <<envVars, selectable, image_handler, threadVars, dialogVars, loopVars, ewfVars,
                   handlerVars, fsCalls, firstFs, firstDiscovery, calls>>

\* the interpreter frees an ImageHandler nothing refers to any more, which
\* closes its container handle and its filesystem handles
CollectGarbage ==
    /\ \E i \in DOMAIN sessions :
        /\ i # image_handler
        /\ ~sessions[i].closed
        /\ sessions' = [sessions EXCEPT ![i].closed = TRUE,
                                        ![i].fs_info_cache = FALSE]
    /\ UNCHANGED <<envVars, selectable, image_handler, evidence_files,
                   tree_viewer, current_image_path, threadVars, dialogVars, loopVars, ewfVars,
                   handlerVars, fsCalls, firstFs, firstDiscovery, calls, ret>>


\* a call that reaches one of the loops: read(0, size) of the image, or
\* the read of a file or a hive of that size; every sub-read of it
\* returns, with between 0 and the requested number of bytes
StartLoop ==
    /\ calls < MaxContentCalls
    /\ loop.status # "running"
    /\ \E kind \in LoopKinds :
        \E size \in LoopSizes(kind) :
            \E readable \in ReadableSizes(size) :
                /\ loop' = EnterLoop(kind, size, readable)
                /\ ret' = [op |-> kind, arg |-> size, raised |-> FALSE,
                           value |-> "None"]
    /\ calls' = calls + 1
    /\ UNCHANGED <<envVars, threadVars, dialogVars, windowVars, ewfVars, handlerVars,
                   fsCalls, firstFs, firstDiscovery>>

\* the next iteration of the loop, or its end
IterateLoop ==
    /\ loop.status = "running"
    /\ \E outcome \in
           SubReadOutcomes(loop, Min(loop.remaining, ChunkOf(loop.kind))) :
        loop' = LoopIteration(loop, outcome)
    /\ UNCHANGED <<envVars, threadVars, dialogVars, windowVars, ewfVars, handlerVars,
                   fsCalls, firstFs, firstDiscovery, calls, ret>>


\* populate_item (lines 719-746) asking _is_zip_file about a file entry
CallIsZipFile ==
    /\ calls < MaxContentCalls
    /\ \E entry_name \in EntryNames, start_offset \in {0},
          inode_number \in {FileInode, MissingInode}, plan \in Plans :
        LET r == IsZipFile(Self, container, file, archive, entry_name,
                           inode_number, start_offset, plan) IN
        /\ Store(r.h)
        /\ IF r.h = Self /\ r.reqs = <<>>
                /\ \E suffix \in ZipSuffixes :
                       EndsWith(StrLower(entry_name), suffix)
           THEN UNCHANGED <<fsCalls, firstFs>>
           ELSE NoteFsCall(start_offset,
                           GetFsInfo(Self, container, start_offset).value)
        /\ calls' = calls + 1
        /\ ret' = [op |-> "_is_zip_file",
                   arg |-> <<entry_name, inode_number, start_offset>>,
                   plan |-> plan, raised |-> r.raised, value |-> r.value,
                   reqs |-> r.reqs]
    /\ UNCHANGED <<envVars, uiVars, ewfVars,
                   firstDiscovery>>


\* start_acquisition / start_conversion (lines 927-942, 1393-1407): a click
\* on the enabled Start button, confirmed
StartAcquisition ==
    /\ start_btn
    /\ starts < MaxStarts
    /\ \E class \in AcquisitionThreads, format_type \in FormatTypes,
          calculate_hash \in BOOLEAN, outcome \in StepOutcomes,
          has_output \in BOOLEAN, lines \in 0..MaxLines,
          chunks \in 0..MaxHashChunks :
        /\ class = "ImageToE01ConversionThread" => format_type = "ewf"
        /\ acquisition_thread' = NewThread(class, format_type, calculate_hash,
                                           outcome, has_output, lines, chunks)
    /\ start_btn' = FALSE
    /\ cancel_btn' = TRUE
    /\ starts' = starts + 1
    /\ UNCHANGED <<signals, envVars, threadVars, loopVars, windowVars,
                   ewfVars, handlerVars, fsCalls, firstFs, firstDiscovery,
                   calls, ret>>

\* cancel_acquisition / cancel_conversion (lines 944-954, 1409-1419),
\* answered Yes: DeviceAcquisitionThread.cancel (lines 35-37, 984-986)
CancelAcquisition ==
    /\ cancel_btn
    /\ IsRunning(acquisition_thread)
    /\ ~acquisition_thread.cancelled
    /\ acquisition_thread' = [acquisition_thread EXCEPT !.cancelled = TRUE]
    /\ UNCHANGED <<start_btn, cancel_btn, signals, starts, envVars,
                   threadVars, loopVars, windowVars, ewfVars, handlerVars,
                   fsCalls, firstFs, firstDiscovery, calls, ret>>

\* the thread takes one step of run(); an emission is queued for the GUI
\* thread
ThreadStep ==
    /\ IsRunning(acquisition_thread)
    /\ acquisition_thread' = RunStep(acquisition_thread)
    /\ signals' = IF acquisition_thread'.emitted > acquisition_thread.emitted
                  THEN Append(signals, "finished")
                  ELSE signals
    /\ UNCHANGED <<start_btn, cancel_btn, starts, envVars, threadVars,
                   loopVars, windowVars, ewfVars, handlerVars, fsCalls,
                   firstFs, firstDiscovery, calls, ret>>

\* acquisition_finished / conversion_finished (lines 956-966, 1421-1431)
AcquisitionFinished ==
    /\ signals # <<>>
    /\ signals' = Tail(signals)
    /\ start_btn' = TRUE
    /\ cancel_btn' = FALSE
    /\ UNCHANGED <<acquisition_thread, starts, envVars, threadVars,
                   loopVars, windowVars, ewfVars, handlerVars, fsCalls,
                   firstFs, firstDiscovery, calls, ret>>

HandlerInit ==
    /\ volume_info = NewHandler.volume_info
    /\ volume_info_loaded = NewHandler.loaded
    /\ fs_info = NewHandler.fs_info
    /\ is_wiped_image = NewHandler.wiped
    /\ fs_info_cache = NewHandler.fs_info_cache
    /\ directory_cache = NewHandler.directory_cache
    /\ file_metadata_cache = NewHandler.file_metadata_cache
    /\ handles = NewHandler.handles
    /\ parseCount = NewHandler.parseCount
    /\ probeCount = NewHandler.probeCount
    /\ mountCount = NewHandler.mountCount
    /\ fsCalls = [o \in Offsets |-> 0]
    /\ firstFs = [o \in Offsets |-> NoHandle]
    /\ firstDiscovery = NoDiscovery
    /\ calls = 0
    /\ ret = [op |-> "none", arg |-> 0, raised |-> FALSE, value |-> "None"]
    /\ ewf_cursor = 0
    /\ last_offset = -1
    /\ temp_files = {}
    /\ threads = [t \in Threads |-> NoTask]
    /\ future = "none"
    /\ callback = "none"
    /\ image_handler = 0
    /\ sessions = <<>>
    /\ evidence_files = <<>>
    /\ tree_viewer = <<>>
    /\ current_image_path = <<>>
    /\ loop = NoLoop
    /\ acquisition_thread = NoThread
    /\ start_btn = TRUE
    /\ cancel_btn = FALSE
    /\ signals = <<>>
    /\ starts = 0

\* volume discovery and filesystem handles of any container
Init ==
    /\ container \in {c \in Containers : ContainerOK(c)}
    /\ directory = NoDirectory
    /\ subdirectory = EmptyDirectory
    /\ file = NoFile
    /\ archive = NoArchive
    /\ media_size = READ_BUFFER_SIZE
    /\ fs_type = "TSK_FS_TYPE_NTFS"
    /\ image_type = "ewf"
    /\ stored_hashes = NoStoredHashes
    /\ selectable = {}
    /\ HandlerInit

Next ==
    \/ CallGetPartitions
    \/ CallLoadImage
    \/ CallGetFsInfo
    \/ CallLoadPartitionsWorker

Spec == Init /\ [][Next]_vars

\* directory listing on an image without volume table
InitDir ==
    /\ container \in {c \in Containers :
                        ContainerOK(c) /\ ~c.vsOK /\ c.fsAt \subseteq {0}}
    /\ directory \in Directories
    /\ subdirectory = EmptyDirectory
    /\ file = NoFile
    /\ archive = NoArchive
    /\ media_size = READ_BUFFER_SIZE
    /\ fs_type = "TSK_FS_TYPE_NTFS"
    /\ image_type = "ewf"
    /\ stored_hashes = NoStoredHashes
    /\ selectable = {}
    /\ HandlerInit

NextDir ==
    \/ CallGetDirectoryContents
    \/ CallClearCache

SpecDir == InitDir /\ [][NextDir]_vars

\* reads of the image bytes through EWFImgInfo
InitRead ==
    /\ container \in {c \in Containers :
                        ContainerOK(c) /\ ~c.vsOK /\ c.fsAt = {}}
    /\ directory = NoDirectory
    /\ subdirectory = EmptyDirectory
    /\ file = NoFile
    /\ archive = NoArchive
    /\ media_size \in ImageSizes
    /\ fs_type = "TSK_FS_TYPE_NTFS"
    /\ image_type = "ewf"
    /\ stored_hashes = NoStoredHashes
    /\ selectable = {}
    /\ HandlerInit

NextRead ==
    \/ CallRead
    \/ CallReadUnallocatedSpace

SpecRead == InitRead /\ [][NextRead]_vars

\* content extraction: files, registry hives, unallocated space
InitContent ==
    /\ container \in {c \in Containers :
                        ContainerOK(c) /\ ~c.vsOK /\ c.fsAt \subseteq {0}}
    /\ directory = NoDirectory
    /\ subdirectory = EmptyDirectory
    /\ file \in Files
    /\ archive = NoArchive
    /\ media_size \in ImageSizes
    /\ fs_type = "TSK_FS_TYPE_NTFS"
    /\ image_type = "ewf"
    /\ stored_hashes = NoStoredHashes
    /\ selectable = {}
    /\ HandlerInit

NextContent ==
    \/ CallGetFileContent
    \/ CallGetRegistryHive
    \/ CallReadUnallocatedSpace

SpecContent == InitContent /\ [][NextContent]_vars

\* the Windows version of the filesystems of an image
InitRegistry ==
    /\ container \in {c \in Containers :
                        ContainerOK(c) /\ ~c.vsOK /\ c.fsAt \subseteq {0}}
    /\ directory = NoDirectory
    /\ subdirectory = EmptyDirectory
    /\ file \in Files
    /\ archive = NoArchive
    /\ media_size = READ_BUFFER_SIZE
    /\ fs_type \in FsTypes
    /\ image_type = "ewf"
    /\ stored_hashes = NoStoredHashes
    /\ selectable = {}
    /\ HandlerInit

NextRegistry ==
    \/ CallGetWindowsVersion
    \/ CallGetRegistryHive

SpecRegistry == InitRegistry /\ [][NextRegistry]_vars

\* the caches of one handler over a directory that changes
InitCache ==
    /\ container \in {c \in Containers :
                        ContainerOK(c) /\ ~c.vsOK /\ c.fsAt \subseteq {0}}
    /\ directory \in CacheDirectories
    /\ subdirectory = EmptyDirectory
    /\ file = NoFile
    /\ archive = NoArchive
    /\ media_size = READ_BUFFER_SIZE
    /\ fs_type = "TSK_FS_TYPE_NTFS"
    /\ image_type = "ewf"
    /\ stored_hashes = NoStoredHashes
    /\ selectable = {}
    /\ HandlerInit

NextCache ==
    \/ CallGetDirectoryContents
    \/ CallClearCache
    \/ CallGetPartitions
    \/ ChangeDirectory

SpecCache == InitCache /\ [][NextCache]_vars

\* recursive walks of a filesystem at offset 0
InitWalk ==
    /\ container \in {c \in Containers :
                        ContainerOK(c) /\ ~c.vsOK /\ c.fsAt \subseteq {0}}
    /\ directory \in WalkDirectories
    /\ subdirectory \in WalkSubdirectories
    /\ file = NoFile
    /\ archive = NoArchive
    /\ media_size = READ_BUFFER_SIZE
    /\ fs_type = "TSK_FS_TYPE_NTFS"
    /\ image_type = "ewf"
    /\ stored_hashes = NoStoredHashes
    /\ selectable = {}
    /\ HandlerInit

NextWalk ==
    \/ CallListFiles
    \/ CallSearchFiles

SpecWalk == InitWalk /\ [][NextWalk]_vars

\* ZIP files inside the filesystem at offset 0
InitZip ==
    /\ container \in {c \in Containers :
                        ContainerOK(c) /\ ~c.vsOK /\ c.fsAt \subseteq {0}}
    /\ directory = NoDirectory
    /\ subdirectory = EmptyDirectory
    /\ file \in Files
    /\ archive \in Archives
    /\ archive.signature => (file.hasMeta /\ file.size >= 2)
    /\ archive.valid => (file.hasMeta /\ file.size >= MinZipSize)
    /\ media_size = READ_BUFFER_SIZE
    /\ fs_type = "TSK_FS_TYPE_NTFS"
    /\ image_type = "ewf"
    /\ stored_hashes = NoStoredHashes
    /\ selectable = {}
    /\ HandlerInit

NextZip ==
    \/ CallGetZipContents
    \/ CallExtractZipEntry

SpecZip == InitZip /\ [][NextZip]_vars

\* archive detection while the tree is populated
InitDetect ==
    /\ InitZip
    /\ archive.members = <<>>

NextDetect == CallIsZipFile

SpecDetect == InitDetect /\ [][NextDetect]_vars

\* hashing of the image, between reads through the handler
InitHash ==
    /\ container \in {c \in Containers :
                        ContainerOK(c) /\ ~c.vsOK /\ c.fsAt = {}}
    /\ directory = NoDirectory
    /\ subdirectory = EmptyDirectory
    /\ file = NoFile
    /\ archive = NoArchive
    /\ media_size \in ImageSizes
    /\ image_type \in {"ewf", "raw"}
    /\ stored_hashes \in StoredHashes
    /\ fs_type = "TSK_FS_TYPE_NTFS"
    /\ selectable = {}
    /\ HandlerInit

NextHash ==
    \/ CallCalculateHashes
    \/ CallRead

SpecHash == InitHash /\ [][NextHash]_vars

\* the threads of the application on one segmented image
InitThreads ==
    /\ container \in {c \in Containers :
                        ContainerOK(c) /\ ~c.vsOK /\ c.fsAt = {0}}
    /\ directory = NoDirectory
    /\ subdirectory = EmptyDirectory
    /\ file = NoFile
    /\ archive = NoArchive
    /\ media_size = READ_BUFFER_SIZE
    /\ image_type = "ewf"
    /\ stored_hashes = NoStoredHashes
    /\ fs_type = "TSK_FS_TYPE_NTFS"
    /\ selectable = {}
    /\ HandlerInit

NextThreads ==
    \/ LoadImageEvidence
    \/ AddDoneCallback
    \/ WorkerReturns
    \/ ItemClicked
    \/ GenerateMindMap
    \/ TaskReturns
    \/ BeginRead
    \/ EndRead

SpecThreads == InitThreads /\ [][NextThreads]_vars

\* the classification of a file of the host, for every file name
InitClassify ==
    /\ container \in {c \in Containers :
                        ContainerOK(c) /\ ~c.vsOK /\ c.fsAt = {0}}
    /\ directory = NoDirectory
    /\ subdirectory = EmptyDirectory
    /\ file = NoFile
    /\ archive = NoArchive
    /\ media_size = READ_BUFFER_SIZE
    /\ fs_type = "TSK_FS_TYPE_NTFS"
    /\ image_type = "ewf"
    /\ stored_hashes = NoStoredHashes
    /\ selectable \in {{p} : p \in ImagePaths}
    /\ HandlerInit

NextClassify ==
    \/ WindowLoadImageEvidence
    \/ WindowRemoveImageEvidence

SpecClassify == InitClassify /\ [][NextClassify]_vars

\* the image sessions of the window
InitSessions ==
    /\ container \in {c \in Containers :
                        ContainerOK(c) /\ ~c.vsOK /\ c.fsAt = {0}}
    /\ directory = NoDirectory
    /\ subdirectory = EmptyDirectory
    /\ file = NoFile
    /\ archive = NoArchive
    /\ media_size = READ_BUFFER_SIZE
    /\ fs_type = "TSK_FS_TYPE_NTFS"
    /\ image_type = "ewf"
    /\ stored_hashes = NoStoredHashes
    /\ selectable = SessionPaths
    /\ HandlerInit

NextSessions ==
    \/ WindowLoadImageEvidence
    \/ WindowLoadPartitionsWorker
    \/ WindowItemExpanded
    \/ WindowItemClicked
    \/ WindowExport
    \/ WindowRemoveImageEvidence
    \/ CollectGarbage

SpecSessions == InitSessions /\ [][NextSessions]_vars

\* the chunked read loops, iteration by iteration; the thread that runs a
\* loop keeps running
InitLoops ==
    /\ container \in {c \in Containers :
                        ContainerOK(c) /\ ~c.vsOK /\ c.fsAt = {0}}
    /\ directory = NoDirectory
    /\ subdirectory = EmptyDirectory
    /\ file = NoFile
    /\ archive = NoArchive
    /\ media_size = READ_BUFFER_SIZE
    /\ fs_type = "TSK_FS_TYPE_NTFS"
    /\ image_type = "ewf"
    /\ stored_hashes = NoStoredHashes
    /\ selectable = {}
    /\ HandlerInit

NextLoops ==
    \/ StartLoop
    \/ IterateLoop

SpecLoops == InitLoops /\ [][NextLoops]_vars /\ WF_vars(IterateLoop)

\* the acquisition and conversion dialogs; the thread is scheduled and
\* queued signals are delivered by the event loop
NextAcquire ==
    \/ StartAcquisition
    \/ CancelAcquisition
    \/ ThreadStep
    \/ AcquisitionFinished

SpecAcquire ==
    /\ InitLoops
    /\ [][NextAcquire]_vars
    /\ WF_vars(ThreadStep)
    /\ WF_vars(AcquisitionFinished)

(***************************************************************************)
(* Volume discovery and the filesystem-handle cache: C1 .. C5              *)
(***************************************************************************)
ListedNormally == ret.op = "get_partitions" /\ ~ret.raised

\* C1: after volume discovery and get_partitions every container is in
\* exactly one of three outcomes: (a) the table parses: not wiped and a
\* non-empty partition list; (b) the parse fails and the offset-0 probe
\* succeeds: not wiped, fs_info set, empty list; (c) both fail: wiped and
\* empty list.
C1_ThreeOutcomes ==
    ListedNormally =>
        /\ container.vsOK =>
               (~is_wiped_image /\ ret.value # <<>>)
        /\ (~container.vsOK /\ 0 \in container.fsAt) =>
               (~is_wiped_image /\ fs_info # NoHandle /\ ret.value = <<>>)
        /\ (~container.vsOK /\ 0 \notin container.fsAt) =>
               (is_wiped_image /\ ret.value = <<>>)

\* C2: volume discovery never raises: get_partitions and load_image return
\* normally whatever fails underneath (the table parse, the offset-0
\* probe, iterating the parsed entries).
C2_DiscoveryNeverRaises ==
    ret.op \in {"get_partitions", "load_image"} => ~ret.raised

\* C3: volume discovery is evaluated once and memoized: the table parse and
\* the offset-0 probe are each attempted at most once, also when they
\* failed, and every later get_partitions has the outcome of the first
\* one, with the same is_wiped() value.
C3_DiscoveryMemoized ==
    /\ parseCount <= 1
    /\ probeCount <= 1
    /\ firstDiscovery.wipedSet => is_wiped_image = firstDiscovery.wiped
    /\ (ret.op = "get_partitions" /\ firstDiscovery.partsSet) =>
           /\ ret.raised = firstDiscovery.raised
           /\ ret.value = firstDiscovery.parts
    /\ (ret.op = "load_partitions_worker" /\ firstDiscovery.partsSet) =>
           /\ ret.value.error = firstDiscovery.raised
           /\ ret.value.partitions = firstDiscovery.parts

\* a second discovery call on an image whose parse and probe both failed
C3_Witness ==
    /\ firstDiscovery.n >= 2
    /\ ret.op = "get_partitions"
    /\ ~container.vsOK
    /\ is_wiped_image
    /\ parseCount = 1 /\ probeCount = 1

\* C4 as stated: get_fs_info is idempotent per start offset and performs
\* the mount/probe at most once per offset, the second call being a cache
\* hit.
C4_MountAtMostOnce ==
    /\ \A o \in Offsets : mountCount[o] <= 1
    /\ ret.op = "get_fs_info" => ret.value = firstFs[ret.arg]

\* C4 amended: two get_fs_info calls with the same start offset return the
\* same handle, or null both times; at a mountable offset the mount is
\* performed exactly once, by the first call, and every later call is a
\* cache hit; at an unmountable offset nothing is cached and every call
\* attempts the mount again.  The key is the start offset alone.
C4_FsInfoIdempotent ==
    /\ ret.op = "get_fs_info" => ret.value = firstFs[ret.arg]
    /\ \A o \in Offsets :
        /\ (o \in container.fsAt /\ fsCalls[o] >= 1) =>
               /\ mountCount[o] = 1
               /\ o \in DOMAIN fs_info_cache
               /\ fs_info_cache[o] = firstFs[o]
               /\ firstFs[o] # NoHandle
        /\ o \notin container.fsAt =>
               /\ mountCount[o] = fsCalls[o]
               /\ o \notin DOMAIN fs_info_cache
               /\ firstFs[o] = NoHandle

\* a repeated get_fs_info at a mounted offset shared by two table entries
C4_Witness ==
    /\ ret.op = "get_fs_info"
    /\ fsCalls[ret.arg] >= 2
    /\ ret.value # NoHandle
    /\ \E i, j \in DOMAIN container.table :
          /\ container.table[i].addr # container.table[j].addr
          /\ container.table[i].start = ret.arg
          /\ container.table[j].start = ret.arg

\* C5: at most one filesystem handle has ever been constructed for a given
\* start offset (byte offset of the mount).
C5_OneHandlePerOffset ==
    \A i, j \in DOMAIN handles : handles[i] = handles[j] => i = j

(***************************************************************************)
(* Directory listing: C6                                                   *)
(***************************************************************************)
IsDot(e) == e.name \in { <<".">>, <<".", ".">> }
IsBad(e) == e.kind = "BAD"
IsGood(e) == e.kind # "BAD"

\* the root directory opens, iterates without error, has no '.' / '..'
\* entry and exactly one entry whose metadata read raises
OneBadEntry ==
    /\ directory.opens
    /\ directory.iterFailAt = 0
    /\ \A i \in DOMAIN directory.entries : ~IsDot(directory.entries[i])
    /\ Cardinality({i \in DOMAIN directory.entries :
                        IsBad(directory.entries[i])}) = 1

ListedRoot ==
    /\ ret.op = "get_directory_contents"
    /\ ret.arg = <<0, NoInode>>
    /\ 0 \in container.fsAt

\* C6: per-entry fault isolation: listing a directory of N entries of which
\* exactly one, at any position, raises while its metadata is read returns
\* the other N-1 entries in their original order, and does not raise.
C6_EntryFaultIsolation ==
    (ListedRoot /\ OneBadEntry) =>
        LET good == SelectSeq(directory.entries, IsGood) IN
        /\ ~ret.raised
        /\ Len(ret.value) = Len(directory.entries) - 1
        /\ ret.value = [i \in 1..Len(good) |-> DirEntry(good[i])]

\* three entries, the middle one failing
C6_Witness ==
    /\ ListedRoot
    /\ OneBadEntry
    /\ Len(directory.entries) = 3
    /\ IsBad(directory.entries[2])
    /\ Len(ret.value) = 2

(***************************************************************************)
(* The image byte source: C7                                               *)
(***************************************************************************)
\* C7: short-read tolerance: a read at an in-bounds offset whose end lies
\* past the image size S does not raise and returns exactly the bytes at
\* [offset, S); no read returns bytes located past S.  (A read raises only
\* when the underlying handle read raised.)
C7_ShortReadTolerance ==
    ret.op = "read" =>
        LET offset == ret.arg[1]
            size == ret.arg[2]
        IN  /\ ret.failAt = 0 => ~ret.raised
            /\ (~ret.raised /\ offset <= media_size
                    /\ offset + size > media_size) =>
                   /\ ret.value = Bytes(offset, media_size)
                   /\ ByteLen(ret.value) = media_size - offset
            /\ \A i \in DOMAIN ret.value : ret.value[i][2] <= media_size

\* a looped read over three handle reads that ends at the end of the image
C7_Witness ==
    /\ ret.op = "read"
    /\ ~ret.raised
    /\ ret.arg[2] > READ_BUFFER_SIZE
    /\ ret.arg[1] + ret.arg[2] > media_size
    /\ media_size - ret.arg[1] > 2 * READ_BUFFER_SIZE
    /\ ByteLen(ret.value) = media_size - ret.arg[1]
    /\ calls >= 2

(***************************************************************************)
(* Content extraction: C8 .. C10                                           *)
(***************************************************************************)
GotFile(inode_number, offset) ==
    /\ offset \in container.fsAt
    /\ inode_number = FileInode
    /\ file.hasMeta

RECURSIVE Contiguous(_, _, _)
\* the requests start at position from, each where the one before ended
Contiguous(reqs, i, from) ==
    IF i > Len(reqs) THEN TRUE
    ELSE /\ reqs[i][1] = from
         /\ reqs[i][2] > 0
         /\ reqs[i][2] <= CHUNK_SIZE
         /\ Contiguous(reqs, i + 1, from + reqs[i][2])

\* C8: chunk-boundary correctness: for a file above the threshold, when
\* every sub-read returns the bytes requested, the content has the length
\* of the file and equals a single read_random(0, file_size); the chunks
\* are read in increasing offset order without gap or overlap.
C8_ChunkBoundary ==
    (ret.op = "get_file_content" /\ GotFile(ret.arg[1], ret.arg[2])
        /\ file.size > LARGE_FILE_THRESHOLD /\ ret.plan.kind = "ok") =>
        /\ ~ret.isNone
        /\ ByteLen(ret.content) = file.size
        /\ ret.content = ReadRandom(file, 0, file.size, 1, ret.plan).data
        /\ Contiguous(ret.reqs, 1, 0)

\* a file of LARGE_FILE_THRESHOLD + 1 bytes read in two chunks
C8_Witness ==
    /\ ret.op = "get_file_content"
    /\ GotFile(ret.arg[1], ret.arg[2])
    /\ ret.plan.kind = "ok"
    /\ file.size = LARGE_FILE_THRESHOLD + 1
    /\ Len(ret.reqs) = 2
    /\ ByteLen(ret.content) = LARGE_FILE_THRESHOLD + 1

\* C9: sentinel distinction: get_file_content returns (None, None) for a
\* file of size 0, for an inode that does not exist and for an offset that
\* cannot be mounted; a file of size 1 gives 1 byte of content with
\* non-null metadata; a non-null result is returned if and only if the
\* file exists, is non-empty and was read without an exception.
C9_SentinelDistinction ==
    ret.op = "get_file_content" =>
        LET inode_number == ret.arg[1]
            offset == ret.arg[2]
            got == GotFile(inode_number, offset)
        IN  /\ (got /\ file.size = 0) => ret.isNone
            /\ (inode_number # FileInode \/ offset \notin container.fsAt)
                   => ret.isNone
            /\ (got /\ file.size = 1 /\ ret.plan.kind = "ok") =>
                   /\ ByteLen(ret.content) = 1
                   /\ ~ret.metadata.none
            /\ ~ret.isNone <=> (got /\ file.size # 0 /\ ~ret.readRaised)
            /\ ret.isNone => (ret.content = <<>> /\ ret.metadata.none)
            /\ ~ret.isNone => ~ret.metadata.none

\* a file of one byte was read
C9_Witness ==
    /\ ret.op = "get_file_content"
    /\ GotFile(ret.arg[1], ret.arg[2])
    /\ file.size = 1
    /\ ~ret.isNone
    /\ ByteLen(ret.content) = 1
    /\ ~ret.metadata.none

\* C10: no extraction operation raises: whatever fails underneath (the
\* mount, the open by inode or path, a read_random call at any chunk, the
\* image read), get_file_content returns (None, None), get_registry_hive
\* and read_unallocated_space return None, and nothing propagates.
C10_ExtractionNeverRaises ==
    /\ ret.op = "get_file_content" =>
           /\ ~ret.raised
           /\ (~GotFile(ret.arg[1], ret.arg[2]) \/ ret.readRaised)
                  => ret.isNone
    /\ ret.op = "get_registry_hive" =>
           /\ ~ret.raised
           /\ (ret.arg[1] \notin container.fsAt \/ ~ret.arg[2]
                  \/ ~file.hasMeta \/ ret.readRaised) => ret.isNone
    /\ ret.op = "read_unallocated_space" =>
           /\ ~ret.raised
           /\ ret.failed => ret.isNone

\* read_random raised at the second chunk of a large file
C10_Witness ==
    /\ ret.op = "get_file_content"
    /\ GotFile(ret.arg[1], ret.arg[2])
    /\ ret.readRaised
    /\ Len(ret.reqs) = 2
    /\ ret.isNone


(***************************************************************************)
(* The temporary hive file: C11                                            *)
(***************************************************************************)
\* C11: the temporary file get_windows_version creates for the hive is
\* gone when the call returns, on every exit path: the OS string, the
\* error string after the parser or the key lookup raised, and a failure
\* while writing the file.
C11_TempHiveDeleted ==
    (ret.op = "get_windows_version" /\ ret.temp # 0) =>
        ret.temp \notin temp_files

(***************************************************************************)
(* The offset-0 probe after a table without usable entries: C13            *)
(***************************************************************************)
\* the volume-table parse succeeds and no entry it yields has a non-empty
\* description
NoUsableEntry ==
    /\ container.vsOK
    /\ container.iterFailAt = 0
    /\ \A i \in 1..Len(container.table) : container.table[i].desc = ""

\* C13: when the volume-table parse succeeds but yields no entry with a
\* non-empty description, discovery still attempts the offset-0 filesystem
\* probe: the image is a bare filesystem when the probe succeeds and wiped
\* when it fails.
C13_ProbeAfterUnusableTable ==
    (ListedNormally /\ NoUsableEntry) =>
        /\ probeCount >= 1
        /\ 0 \in container.fsAt => (fs_info # NoHandle /\ ~is_wiped_image)
        /\ 0 \notin container.fsAt => is_wiped_image

(***************************************************************************)
(* The caches: C14, C15                                                    *)
(***************************************************************************)
\* C14: clear_cache() empties the directory-listing cache and the
\* file-metadata cache completely and leaves everything else untouched:
\* the entries of the filesystem-handle cache, the volume-discovery state
\* (volume_info, fs_info, is_wiped_image, _volume_info_loaded) and the
\* image handle.
C14_ClearCacheFrame ==
    [][ (ret'.op = "clear_cache" /\ calls' = calls + 1) =>
            /\ directory_cache' = << >>
            /\ file_metadata_cache' = << >>
            /\ UNCHANGED <<fs_info_cache, handles, volume_info, fs_info,
                           is_wiped_image, volume_info_loaded, container,
                           ewf_cursor, last_offset>> ]_vars

\* clear_cache dropped a listing and kept a mounted handle and the
\* result of volume discovery
C14_Witness ==
    /\ ret.op = "clear_cache"
    /\ ret.dropped > 0
    /\ directory_cache = << >>
    /\ fs_info_cache # << >>
    /\ volume_info_loaded
    /\ fs_info # NoHandle

\* what listing the directory on the media gives now
FreshListing(inode) ==
    LET opened == OpenDir(directory, inode) IN
    ListEntries(opened.entries, 1, opened.iterFailAt, <<>>).value

\* C15: directory listings are cached per (start_offset, inode or root):
\* once a listing succeeded for a key, every later call with that key
\* before clear_cache() returns the same entry sequence without opening
\* the directory again, even when the directory on the media changed in
\* between; a call for a key that is not cached (the first call, or the
\* first after clear_cache()) reads the directory, and when it succeeds
\* its result is what later calls return.
C15_ListingCachedPerKey ==
    [][ (ret'.op = "get_directory_contents" /\ calls' = calls + 1) =>
            LET key == ret'.arg IN
            IF key \in DOMAIN directory_cache
            THEN /\ ret'.value = directory_cache[key]
                 /\ ~ret'.opened
                 /\ directory_cache' = directory_cache
            ELSE /\ ret'.opened = (key[1] \in container.fsAt)
                 /\ key \in DOMAIN directory_cache' =>
                        /\ ret'.value = FreshListing(key[2])
                        /\ directory_cache'[key] = ret'.value
                 /\ \A k \in DOMAIN directory_cache :
                        /\ k \in DOMAIN directory_cache'
                        /\ directory_cache'[k] = directory_cache[k] ]_vars

\* a cached root listing was returned after the directory had changed
C15_Witness ==
    /\ ret.op = "get_directory_contents"
    /\ ret.arg = <<0, NoInode>>
    /\ ret.hit
    /\ directory.opens
    /\ ret.value # FreshListing(NoInode)
    /\ ret.value # << >>

(***************************************************************************)
(* Entries of the listing and of the recursive walk: C18, C19, C20         *)
(***************************************************************************)
\* the entries of the directories on the media
RawEntries ==
    {directory.entries[i] : i \in DOMAIN directory.entries}
        \cup {subdirectory.entries[i] : i \in DOMAIN subdirectory.entries}

RawTimes(e) == <<e.times.atime, e.times.mtime, e.times.crtime, e.times.ctime>>
Rendered(o) == <<o.accessed, o.modified, o.created, o.changed>>

\* timestamp k of the raw entry e is zero or absent
ZeroOrAbsent(e, k) ==
    \/ e.kind = "NOMETA"
    \/ RawTimes(e)[k] \in {NoTime, 0}
    \/ (k = 3 /\ ~e.times.has_crtime)

EpochZeroText == {"1970-01-01 00:00:00", "1970-01-01 00:00:00 UTC"}

\* the produced entry o renders the timestamps of the raw entry e
Normalized(o, e) ==
    \A k \in 1..4 :
        /\ ZeroOrAbsent(e, k) => Rendered(o)[k] = "N/A"
        /\ Rendered(o)[k] \notin EpochZeroText

Walked ==
    /\ ret.op \in {"list_files", "search_files"}
    /\ 0 \in container.fsAt
    /\ directory.opens

ListedFresh == ret.op = "get_directory_contents" /\ ~ret.hit /\ ret.opened

\* C18: in every entry produced by the directory listing and by the
\* recursive walk, each of created / accessed / modified / changed whose
\* raw timestamp is zero or absent is rendered as "N/A", never as the date
\* text of epoch zero (1970-01-01 00:00:00).
C18_TimestampSentinel ==
    /\ ListedFresh =>
           \A i \in DOMAIN ret.value :
               \A e \in RawEntries :
                   (e.kind # "BAD" /\ DirEntry(e).inode_number
                                        = ret.value[i].inode_number)
                       => Normalized(ret.value[i], e)
    /\ Walked =>
           \A i \in DOMAIN ret.value :
               \A e \in RawEntries :
                   ToString(e.addr) = ret.value[i].inode_item
                       => Normalized(ret.value[i], e)

InvalidName(e) == \E i \in 1..Len(e.name) : e.name[i] = "FF"

\* the walk reported the raw entry e
Reported(e) ==
    \E j \in DOMAIN ret.value : ret.value[j].inode_item = ToString(e.addr)

\* the filter of the walk that returned, applied to a file name
MatchesFilter(file_name) ==
    IF ret.op = "list_files"
    THEN QueryMatches(file_name, ret.arg, <<>>)
    ELSE QueryMatches(file_name, NoExtensions, ret.arg)

\* C19: names that are not valid UTF-8 never raise and never drop an
\* entry: the listing and the recursive walk (for a regular file that
\* matches the filter) still produce an entry for it, with the name
\* decoded best-effort.
C19_InvalidNamesKept ==
    /\ ret.op \in {"get_directory_contents", "list_files", "search_files"}
           => ~ret.raised
    /\ (ListedFresh /\ ret.arg[2] = NoInode /\ directory.opens
            /\ directory.iterFailAt = 0) =>
           \A i \in DOMAIN directory.entries :
               LET e == directory.entries[i] IN
               (InvalidName(e) /\ e.kind # "BAD") =>
                   \E j \in DOMAIN ret.value :
                       /\ ret.value[j].inode_number = e.addr
                       /\ ret.value[j].name = DecodeIgnore(e.name)
    /\ Walked =>
           \A i \in DOMAIN directory.entries :
               LET e == directory.entries[i] IN
               (InvalidName(e) /\ e.kind = "REG"
                    /\ MatchesFilter(DecodeIgnore(e.name)))
                   => Reported(e)

\* the extension of a name is a member of the allow-list, compared
\* case-insensitively; the member "" is the extension of a name without one
InAllowList(name, list) ==
    \E x \in list : StrLower(x) = StrLower(Splitext(name))

\* C20: with no search query a regular file is included if and only if
\* its extension, compared case-insensitively, is a member of the
\* allow-list, the empty-string member matching exactly the files without
\* extension ({'', '.jpg'} leaves out notes.txt, {'.JPG'} includes a.jpg);
\* a query with a leading '.' matches on case-insensitive equality of the
\* extension instead.  Stated for the regular files of the root directory
\* whose names are valid UTF-8.
C20_ExtensionFilter ==
    Walked =>
        \A i \in DOMAIN directory.entries :
            LET e == directory.entries[i] IN
            (e.kind = "REG" /\ ~InvalidName(e)) =>
                /\ (ret.op = "list_files" /\ ~ret.arg.none) =>
                       (Reported(e) <=> InAllowList(e.name, ret.arg.list))
                /\ (ret.op = "search_files" /\ ret.arg # <<>>
                        /\ Head(ret.arg) = ".") =>
                       (Reported(e) <=>
                            StrLower(Splitext(e.name)) = StrLower(ret.arg))

(***************************************************************************)
(* Archive transparency: C16                                               *)
(***************************************************************************)
\* get_file_content returned every byte of the host file
HostWhole == ret.content # <<>> /\ ByteLen(ret.content) = file.size

\* the members stored under the path asked for
Named(zip_path) ==
    {i \in 1..Len(archive.members) : archive.members[i].filename = zip_path}

\* C16: for a host file whose content is a valid ZIP (such as one with the
\* members a.txt, dir/, dir/b.txt) the archive listing returns exactly one
\* entry per stored member in stored order, is_directory true exactly for
\* the members whose stored path ends with '/', inode_number absent, each
\* entry carrying the host inode and host offset; extracting a member
\* (such as dir/b.txt) returns exactly the bytes stored for it.  A host
\* file that does not start with the ZIP signature, or is a corrupt
\* archive, yields null from the listing, never partial entries.
C16_ArchiveTransparency ==
    /\ (ret.op = "_get_zip_contents" /\ HostWhole /\ archive.signature
            /\ archive.valid) =>
           /\ ~ret.isNone
           /\ Len(ret.value) = Len(archive.members)
           /\ \A i \in 1..Len(archive.members) :
                LET m == archive.members[i]
                    o == ret.value[i] IN
                /\ o.zip_path = m.filename
                /\ o.is_directory = (m.filename[Len(m.filename)] = "/")
                /\ o.inode_number = NoInode
                /\ o.zip_parent_inode = ret.arg[1]
                /\ o.zip_parent_offset = ret.arg[2]
                /\ o.size = Len(m.data)
    /\ (ret.op = "_get_zip_contents"
            /\ (~archive.signature \/ ~archive.valid)) =>
           (ret.isNone /\ ret.value = <<>>)
    /\ (ret.op = "_extract_zip_entry" /\ HostWhole /\ archive.valid
            /\ Cardinality(Named(ret.arg[3])) = 1
            /\ \A i \in Named(ret.arg[3]) : archive.members[i].crc_ok) =>
           /\ ~ret.isNone
           /\ \A i \in Named(ret.arg[3]) :
                ret.value = archive.members[i].data
    /\ ret.op \in {"_get_zip_contents", "_extract_zip_entry"} => ~ret.raised

\* the listing of the archive a.txt, dir/, dir/b.txt
C16_Witness ==
    /\ ret.op = "_get_zip_contents"
    /\ ~ret.isNone
    /\ Len(ret.value) = 3
    /\ ret.value[1].name = <<"a", ".", "t", "x", "t">>
    /\ ret.value[2].name = <<"d", "i", "r">>
    /\ ret.value[3].zip_path = <<"d", "i", "r", "/", "b", ".", "t", "x", "t">>
    /\ {i \in 1..3 : ret.value[i].is_directory} = {2}
    /\ ret.value[3].zip_parent_inode = FileInode

(***************************************************************************)
(* Hashing: C17                                                            *)
(***************************************************************************)
HashesReturned == ret.op = "calculate_hashes" /\ ~ret.raised

\* the reads among the events
ReadEvents == SelectSeq(ret.events, LAMBDA ev : ev[1] = "read")

\* C17: calculate_hashes makes one sequential pass over the image: every
\* byte of an N-byte image is read exactly once, in increasing offset
\* order, in chunks of at most 1 MiB, and each chunk is fed to the three
\* digests (MD5, SHA1, SHA256) before the next chunk is read; the reported
\* size is N and the digests are those of the N-byte buffer.  For a
\* segmented container that has no stored digests, stored_md5 and
\* stored_sha1 are null and nothing is raised for it.
C17_OneSequentialPass ==
    HashesReturned =>
        /\ ReadEvents # <<>>
        /\ ReadEvents[1][2] = 0
        /\ \A j \in 1..Len(ReadEvents) :
             /\ ReadEvents[j][3] <= READ_BUFFER_SIZE
             /\ j < Len(ReadEvents) =>
                    (/\ ReadEvents[j][3] > 0
                     /\ ReadEvents[j + 1][2]
                            = ReadEvents[j][2] + ReadEvents[j][3])
        /\ LET last == ReadEvents[Len(ReadEvents)] IN
             last[2] + last[3] = media_size
        /\ \A j \in 1..Len(ret.events) :
             LET ev == ret.events[j] IN
             (ev[1] = "read" /\ ev[3] > 0) =>
                 /\ j + 3 <= Len(ret.events)
                 /\ ret.events[j + 1] = <<"md5", ev[2], ev[3]>>
                 /\ ret.events[j + 2] = <<"sha1", ev[2], ev[3]>>
                 /\ ret.events[j + 3] = <<"sha256", ev[2], ev[3]>>
        /\ Len(ret.events) = 4 * Len(ReadEvents) - 3
        /\ ret.value.size = media_size
        /\ ret.value.computed_md5 = [alg |-> "md5", fed |-> Bytes(0, media_size)]
        /\ ret.value.computed_sha1
               = [alg |-> "sha1", fed |-> Bytes(0, media_size)]
        /\ ret.value.computed_sha256
               = [alg |-> "sha256", fed |-> Bytes(0, media_size)]
        /\ (image_type = "ewf"
                /\ stored_hashes.md5 \in {"None", "raises"}
                /\ stored_hashes.sha1 \in {"None", "raises"}) =>
               (ret.value.stored_md5 = "None" /\ ret.value.stored_sha1 = "None")

\* a segmented image of two buffers and five bytes without stored digests
\* was hashed, one of the reads having returned less than asked
C17_Witness ==
    /\ HashesReturned
    /\ image_type = "ewf"
    /\ stored_hashes.md5 = "raises"
    /\ media_size = MaxBuffers * READ_BUFFER_SIZE + 5
    /\ ret.plan.kind = "short"
    /\ \E j \in 1..(Len(ReadEvents) - 2) : ReadEvents[j][3] < READ_BUFFER_SIZE
    /\ ret.value.size = media_size

(***************************************************************************)
(* Serialized access to the image handle: C12                              *)
(***************************************************************************)
\* C12: access to one image handle is serialized: at no time are two
\* threads inside read() on the same ImageHandler.img_info; the partition
\* worker with its completion callback, the MindMapWorker thread and the
\* handlers of the UI thread never overlap on the handle, so the seek-skip
\* bookkeeping of EWFImgInfo is never interleaved.
C12_ReadsSerialized ==
    \A t1, t2 \in Threads :
        (threads[t1].in_read /\ threads[t2].in_read) => t1 = t2

(***************************************************************************)
(* Failure of one subdirectory during the walk: C21                        *)
(***************************************************************************)
\* the root holds a directory entry whose subdirectory cannot be opened or
\* whose iteration raises
SubdirectoryFails ==
    /\ \E i \in DOMAIN directory.entries :
           /\ directory.entries[i].kind = "DIR"
           /\ directory.entries[i].addr = SubdirInode
           /\ directory.entries[i].name \notin { <<".">>, <<".", ".">> }
    /\ (~subdirectory.opens \/ subdirectory.iterFailAt # 0)

\* the subdirectory with the entries its iteration yields before it fails
SubdirectoryUntilFailure ==
    IF ~subdirectory.opens THEN EmptyDirectory
    ELSE [opens |-> TRUE, iterFailAt |-> 0,
          entries |-> SubSeq(subdirectory.entries, 1,
                             subdirectory.iterFailAt - 1)]

\* the walk that returned gave what the same walk gives when the failing
\* subdirectory just ends where it failed
SameAsWithoutFailure ==
    (Walked /\ SubdirectoryFails) =>
        /\ ~ret.raised
        /\ ret.value =
               (IF ret.op = "list_files"
                THEN ListFiles(container, directory,
                               SubdirectoryUntilFailure, ret.arg)
                ELSE SearchFiles(container, directory,
                                 SubdirectoryUntilFailure, ret.arg)).value

\* C21: when opening or iterating one subdirectory fails during the
\* recursive walk, the walk returns normally and every regular file among
\* the sibling entries (before and after the subdirectory) that matches
\* the filter is reported: only files under the failed subdirectory are
\* missing.
C21_SubtreeOnlyDegradation ==
    (Walked /\ SubdirectoryFails) =>
        /\ ~ret.raised
        /\ \A i \in DOMAIN directory.entries :
               LET e == directory.entries[i] IN
               (e.kind = "REG" /\ MatchesFilter(DecodeIgnore(e.name)))
                   => Reported(e)

(***************************************************************************)
(* The request of read_unallocated_space: C22, C27                         *)
(***************************************************************************)
ReadUnallocated == ret.op = "read_unallocated_space"

\* C22: for every pair of integers (start_sector, end_sector), inverted
\* and empty ranges included, read_unallocated_space asks the image for at
\* least one sector (512 bytes), never for zero or a negative number of
\* bytes, and the request begins at byte start_sector * 512.
C22_AtLeastOneSector ==
    ReadUnallocated =>
        /\ ret.req[1] = ret.arg[1] * SECTOR_SIZE
        /\ ret.req[2] >= SECTOR_SIZE

\* a degenerate range (end = start) and an inverted one (end < start)
\* were read, each with a request of one sector
C22_Witness ==
    /\ ReadUnallocated
    /\ ret.arg[2] < ret.arg[1]
    /\ ret.req[2] = SECTOR_SIZE

\* C27: for a region (start_sector, end_sector) of length_sectors >= 1
\* sectors, end_sector = start_sector + length_sectors - 1, as
\* _load_partitions_worker derives it from a partition entry,
\* read_unallocated_space asks for exactly length_sectors * 512 bytes from
\* byte start_sector * 512 on: every byte of every sector of the region,
\* the whole last sector included.
C27_WholeRegionRequested ==
    (ReadUnallocated /\ ret.arg[2] >= ret.arg[1]) =>
        LET length_sectors == ret.arg[2] - ret.arg[1] + 1 IN
        ret.req = <<ret.arg[1] * SECTOR_SIZE, length_sectors * SECTOR_SIZE>>

(***************************************************************************)
(* Classification of the image format: C23                                 *)
(***************************************************************************)
\* the extensions of the segmented and of the linear formats
SegmentedExtensions ==
    { <<".", "e", "0", "1">>, <<".", "s", "0", "1">>,
      <<".", "l", "0", "1">>, <<".", "e", "x", "0", "1">> }
LinearExtensions ==
    { <<".", "r", "a", "w">>, <<".", "i", "m", "g">>, <<".", "d", "d">>,
      <<".", "i", "s", "o">>, <<".", "a", "d", "1">>,
      <<".", "0", "0", "1">>, <<".", "d", "m", "g">>,
      <<".", "s", "p", "a", "r", "s", "e">>,
      <<".", "s", "p", "a", "r", "s", "e", "i", "m", "a", "g", "e">> }

Loaded == ret.op = "load_image_evidence"

\* C23: the image format depends only on the lower-cased extension of the
\* file name: segmented ("ewf") for exactly .e01 .s01 .l01 .ex01, linear
\* ("raw") for exactly .raw .img .dd .iso .ad1 .001 .dmg .sparse
\* .sparseimage, an explicit error for every other extension and for no
\* extension; the two sets are disjoint; and the construction of an
\* ImageHandler for an unsupported extension fails before any handle is
\* opened.
C23_Classification ==
    /\ SegmentedExtensions \cap LinearExtensions = {}
    /\ Loaded =>
        LET extension == StrLower(PathSplitext(ret.arg)) IN
        /\ ret.type = "ewf" <=> extension \in SegmentedExtensions
        /\ ret.type = "raw" <=> extension \in LinearExtensions
        /\ ret.type = "ValueError" <=>
               extension \notin SegmentedExtensions \cup LinearExtensions
        /\ ret.type = "ValueError" =>
               /\ ret.raised
               /\ ret.value = "ValueError"
               /\ ret.opened = <<>>
               /\ ret.img_info = "None"

\* a file whose extension is listed only after lower-casing was opened as
\* a linear image
C23_Witness ==
    /\ Loaded
    /\ ret.type = "raw"
    /\ ~ret.raised
    /\ PathSplitext(ret.arg) \notin LinearExtensions
    /\ sessions # <<>>

(***************************************************************************)
(* The image sessions of the window: C24, C29                              *)
(***************************************************************************)
BrowseOps == {"on_item_expanded", "on_item_clicked", "export_file"}

\* C24: once remove_image_evidence has completed for an image (one image
\* or "Remove All"), the container handle of that image is closed and its
\* cache of filesystem handles is dropped, and no later operation of the
\* window reads through the handle of the removed image.
C24_HandlesReleasedOnRemoval ==
    /\ \A i \in DOMAIN sessions :
           sessions[i].removed =>
               /\ sessions[i].closed
               /\ ~sessions[i].fs_info_cache
    /\ ret.op \in BrowseOps \cup {"_load_partitions_worker"} =>
           ~ret.through_removed

\* C29: with evidence A and then evidence B loaded, every operation on a
\* tree node of A (expanding, clicking, exporting) and the background
\* load that fills the partitions under the root item of A read through
\* the handler and caches of A, never through those of B.
C29_SessionIsolation ==
    /\ ret.op \in BrowseOps \cup {"_load_partitions_worker"} =>
           ret.through = ret.item
    /\ \A i \in DOMAIN sessions :
           sessions[i].partitions_from \in {0, i}

(***************************************************************************)
(* The seek that EWFImgInfo.read skips: C25                                *)
(***************************************************************************)
\* C25: for any sequence of read(offset, size) calls of one caller (sizes
\* at, below and above 1 MiB, repeated and non-contiguous offsets, reads
\* at the end of the media, and calls after a read whose handle read
\* raised) every call returns the bytes that a read which always seeks to
\* `offset` first returns; equivalently, between calls _last_offset is the
\* position of the cursor of the handle whenever it can make the next
\* call skip the seek.
C25_SeekSkipEquivalence ==
    /\ ret.op = "read" =>
           /\ ret.raised = ret.seeking.raised
           /\ ret.value = ret.seeking.value
    /\ last_offset # -1 => last_offset = ewf_cursor

(***************************************************************************)
(* Termination of the chunked read loops: C26                              *)
(***************************************************************************)
\* C26: every chunked read loop (EWFImgInfo.read above 1 MiB,
\* get_file_content and get_registry_hive above 10 MiB) ends after
\* finitely many sub-reads when each sub-read returns between 0 and the
\* requested number of bytes: it ends with remaining = 0 or on a sub-read
\* of zero bytes, and then returns the bytes collected so far; remaining
\* is never negative and no sub-read asks for more than the chunk size.
C26_LoopsTerminate ==
    /\ [](loop.status \in {"running", "returned"} =>
              /\ loop.remaining >= 0
              /\ loop.chunk_size <= ChunkOf(loop.kind)
              /\ ByteLen(loop.data) = loop.size - loop.remaining
              /\ loop.data = Bytes(0, loop.size - loop.remaining))
    /\ [](loop.status = "returned" =>
              (loop.remaining = 0 \/ loop.chunk = 0))
    /\ (loop.status = "running") ~> (loop.status # "running")

\* a loop returned short, with bytes collected, on an empty sub-read
C26_Witness ==
    /\ loop.status = "returned"
    /\ loop.remaining > 0
    /\ loop.chunk = 0
    /\ loop.data # <<>>
    /\ loop.kind = "get_file_content"

(***************************************************************************)
(* What archive detection reads: C28                                       *)
(***************************************************************************)
\* the bytes _is_zip_file asked the filesystem layer for
RECURSIVE RequestedBytes(_)
RequestedBytes(reqs) ==
    IF reqs = <<>> THEN 0 ELSE Head(reqs)[2] + RequestedBytes(Tail(reqs))

\* C28: archive detection reads only a small header.  For a name whose
\* extension is in the allow-list _is_zip_file reads nothing; for any
\* other name it asks the filesystem layer for at most a fixed small
\* number of header bytes, whatever the size of the file, never for its
\* whole content.
C28_HeaderOnly ==
    ret.op = "_is_zip_file" =>
        IF \E suffix \in ZipSuffixes : EndsWith(StrLower(ret.arg[1]), suffix)
        THEN ret.reqs = <<>>
        ELSE RequestedBytes(ret.reqs) <= SignatureBytes

(***************************************************************************)
(* The finished signal of the acquisition threads: C30                     *)
(***************************************************************************)
\* C30: every run of DeviceAcquisitionThread and of
\* ImageToE01ConversionThread emits finished exactly once, on every path
\* (success, failure of the acquisition step, unsupported format,
\* cancellation at any moment, the hashing included); hence after a start
\* the Start button is eventually enabled again.
C30_FinishedExactlyOnce ==
    /\ [](acquisition_thread.pc = "returned"
              => acquisition_thread.emitted = 1)
    /\ [](acquisition_thread.emitted <= 1)
    /\ (~start_btn) ~> start_btn

\* what does hold: a run never emits twice, and a run that is not
\* cancelled after its acquisition step emits once
EmitsAtMostOnce ==
    /\ acquisition_thread.emitted <= 1
    /\ (acquisition_thread.pc = "returned" /\ ~acquisition_thread.cancelled)
           => acquisition_thread.emitted = 1
====
